---------------------------- MODULE Spec2Model ----------------------------
(***************************************************************************)
(* Stacked-alpha video compositor of hypervideo: the WebGL resource cache  *)
(* (packages/react/src/shaderCache.ts), the React player component         *)
(* (packages/react/src/StackedAlphaVideo.tsx), the useStackedAlpha hook    *)
(* and the native Metal views (packages/swift, packages/expo/ios).         *)
(*                                                                         *)
(* Each behaviour exercises one component; `platform` says which.          *)
(***************************************************************************)
EXTENDS Integers, Sequences, FiniteSets, TLC

VARIABLES
    platform,       \* which component this behaviour exercises
    resourceCache,  \* shaderCache.ts: WeakMap<WebGLRenderingContext, CachedResources>
    nextRes,        \* next fresh GL object name (programs, buffers)
    cs,             \* callers of the cache: what each one was handed, call history
    web,            \* one StackedAlphaVideo component, its <video> and its canvas
    nat,            \* one native StackedAlphaVideoView
    hook,           \* one useStackedAlpha hook instance
    pixel,          \* one input frame and the pixel each platform's pipeline leaves
    preloader,      \* one useVideoPreloader instance, its elements and the document
    batch           \* one runBatch call: its arguments, loop position and results

vars == <<platform, resourceCache, nextRes, cs, web, nat, hook,
          pixel, preloader, batch>>

\* The components a behaviour of the player does not exercise.
tools == <<pixel, preloader, batch>>

(***************************************************************************)
(* Bounds of the model.                                                    *)
(***************************************************************************)
NumSessions == 2
MaxRes == 3
MaxCompiles == 2
MaxQueue == 2
MaxPending == 2
MaxGen == 1
MaxEnv == 2
MaxFrames == 2
MaxFailures == 2

\* Longest run of texture failures followed (see LongRun).
MaxRun == 121

\* Seconds one step of the clock takes, and the last second followed.
TimeStep == 15

MaxClock == 45
MaxRows == 2
MaxElements == 2
MaxFiles == 4

\* GL contexts are identities, not a count: "c1" is the context of the
\* component's canvas, "c2" any other context.
Contexts == {"c1", "c2"}
NoCtx == "none"
Sessions == 1..NumSessions

(***************************************************************************)
(* The outcomes the GL driver can give to one run of the compile / link /  *)
(* createBuffer sequence.                                                  *)
(***************************************************************************)
GLOutcomes == {"ok", "createShader", "compile", "createProgram", "link",
               "positionBuffer", "texCoordBuffer"}

NoRes == [program |-> 0, positionBuffer |-> 0, texCoordBuffer |-> 0, gen |-> 0]

NewRes(n, g) == [program |-> n, positionBuffer |-> n, texCoordBuffer |-> n, gen |-> g]

(***************************************************************************)
(* shaderCache.ts                                                          *)
(***************************************************************************)

\* Mutant of getOrCreateResources: the cache lookup is skipped.
getOrCreateResources_nolookup(cache, c, outcome, n, g) ==
    IF outcome # "ok"
      THEN [ret |-> NoRes, cache |-> cache, compiled |-> TRUE]
      ELSE [ret |-> NewRes(n, g),
            cache |-> [cache EXCEPT ![c] = NewRes(n, g)],
            compiled |-> TRUE]

\* getOrCreateResources(gl): the entry returned (NoRes for null), the cache
\* afterwards, and whether the shaders were handed to the compiler.
\* c is the context, outcome what the driver answers, n the fresh object
\* name, g the context's generation (bumped by every restoration).
getOrCreateResources(cache, c, outcome, n, g) ==
    IF cache[c] # NoRes
      THEN [ret |-> cache[c], cache |-> cache, compiled |-> FALSE]
      ELSE IF outcome # "ok"
        THEN [ret |-> NoRes, cache |-> cache, compiled |-> TRUE]
        ELSE [ret |-> NewRes(n, g),
              cache |-> [cache EXCEPT ![c] = NewRes(n, g)],
              compiled |-> TRUE]

\* Mutant of setupVertexAttributes: it rebinds the cached entry's buffer.
setupVertexAttributes_mutating(cache, c, res) ==
    [cache |-> [cache EXCEPT ![c] = [res EXCEPT !.positionBuffer = res.texCoordBuffer + 1]],
     bound |-> res.program]

\* setupVertexAttributes(gl, resources): useProgram and the two attribute
\* pointers; reads the entry, writes only GL binding state.
setupVertexAttributes(cache, c, res) ==
    [cache |-> cache, bound |-> res.program]

\* clearCache(gl)
clearCache(cache, c) == [cache EXCEPT ![c] = NoRes]

(***************************************************************************)
(* Callers of the cache (platform "cache"): sessions call the exported     *)
(* functions in any order on any context.                                  *)
(***************************************************************************)
CsInit ==
    [held     |-> [s \in Sessions |-> NoRes],
     heldCtx  |-> [s \in Sessions |-> NoCtx],
     heldEra  |-> [s \in Sessions |-> 0],
     compiles |-> [c \in Contexts |-> 0],
     failed   |-> [c \in Contexts |-> FALSE],
     era      |-> [c \in Contexts |-> 0],
     last     |-> <<"none", NoCtx, 0>>]

CacheGet(s, c, outcome) ==
    /\ platform = "cache"
    /\ resourceCache[c] = NoRes => (nextRes < MaxRes /\ cs.compiles[c] < MaxCompiles)
    /\ LET r == getOrCreateResources(resourceCache, c, outcome, nextRes + 1, 0)
       IN /\ resourceCache' = r.cache
          /\ nextRes' = IF r.compiled /\ outcome = "ok" THEN nextRes + 1 ELSE nextRes
          /\ cs' = [cs EXCEPT
                !.held[s] = r.ret,
                !.heldCtx[s] = IF r.ret = NoRes THEN NoCtx ELSE c,
                !.heldEra[s] = IF r.ret = NoRes THEN 0 ELSE cs.era[c],
                !.compiles[c] = IF r.compiled THEN @ + 1 ELSE @,
                !.failed[c] = @ \/ (r.compiled /\ outcome # "ok"),
                !.last = <<"get", c, r.ret.program>>]
    /\ UNCHANGED <<platform, web, nat, hook, tools>>

CacheSetup(s) ==
    /\ platform = "cache"
    /\ cs.held[s] # NoRes
    /\ LET c == cs.heldCtx[s]
           r == setupVertexAttributes(resourceCache, c, cs.held[s])
       IN /\ resourceCache' = r.cache
          /\ cs' = [cs EXCEPT !.last = <<"setup", c, r.bound>>]
    /\ UNCHANGED <<platform, nextRes, web, nat, hook, tools>>

CacheClear(c) ==
    /\ platform = "cache"
    /\ resourceCache' = clearCache(resourceCache, c)
    /\ cs' = [cs EXCEPT !.era[c] = IF resourceCache[c] # NoRes THEN @ + 1 ELSE @,
                        !.last = <<"clear", c, 0>>]
    /\ UNCHANGED <<platform, nextRes, web, nat, hook, tools>>

(***************************************************************************)
(* The browser around the component: URL resolution, the media element,    *)
(* its event task queue, its frame callbacks.                              *)
(***************************************************************************)
Srcs == {"/a.mp4", "http://h/b.mp4"}

\* HTMLMediaElement.src read back: the attribute resolved against the
\* document's base URL ("http://h/").
Resolve(s) == IF s = "/a.mp4" THEN "http://h/a.mp4" ELSE s

\* Decoded frame sizes <<videoWidth, videoHeight>>.
\* Decoded frame sizes (videoWidth, videoHeight); one has an odd height.
Sizes == {<<2, 4>>, <<2, 5>>}
NoSize == <<0, 0>>

\* A size ref that holds null.
NullSize == <<>>

HAVE_CURRENT_DATA == 2

\* Consecutive texture failures at which the native view reports an error.
TextureFailureLimit == 120

\* video.play(): rejected by the autoplay policy (ok = FALSE) or accepted.
videoPlay(w, ok) ==
    IF ~ok THEN [w EXCEPT !.ops = @ \cup {"playRejected"}]
    ELSE IF w.paused
      THEN [w EXCEPT !.paused = FALSE, !.ended = FALSE,
                     !.evq = Append(@, "play")]
      ELSE [w EXCEPT !.ended = FALSE]

\* video.pause()
videoPause(w) ==
    IF w.paused THEN w
    ELSE [w EXCEPT !.paused = TRUE, !.evq = Append(@, "pause")]

\* The media element load algorithm, run when the src attribute is set:
\* queued media events are dropped, the element is reset and paused without
\* a pause event.
videoLoad(w, s) ==
    [w EXCEPT !.vsrc = s, !.readyState = 0, !.paused = TRUE, !.ended = FALSE,
              !.error = FALSE, !.evq = <<>>, !.size = NoSize]

(***************************************************************************)
(* StackedAlphaVideo.tsx                                                   *)
(***************************************************************************)
\* The component before its first effect. lp is the loop prop; ext tells
\* whether the videoElement prop supplies the <video> (then vl is the loop
\* attribute its maker gave it, useVideoPreloader's own loop option) or the
\* component renders its own <video loop={loop}>.
WebInit(vfc, ap, s, lp, ext, vl) ==
    [phase |-> "new", hasVFC |-> vfc, autoPlay |-> ap, src |-> s,
     loop |-> lp, external |-> ext, vloop |-> IF ext THEN vl ELSE lp,
     width |-> 0, height |-> 0,
     vsrc |-> s, paused |-> TRUE, ended |-> FALSE, readyState |-> 0,
     error |-> FALSE,
     size |-> NoSize, evq |-> <<>>,
     vfcN |-> 0, vfcRef |-> "null", rafN |-> 0, rafRef |-> "null",
     gl |-> NoCtx, gen |-> 0,
     program |-> 0, programGen |-> 0, texture |-> 0,
     textureInitialized |-> FALSE, lastTextureSize |-> NullSize,
     texStorage |-> NullSize,
     isVisible |-> TRUE, wasPlayingBeforeHidden |-> FALSE,
     contextLost |-> FALSE, canvas |-> <<300, 150>>,
     obsLast |-> "none", hiddenAs |-> "none",
     videoListeners |-> FALSE, env |-> 0,
     ops |-> {}, uploaded |-> FALSE, lastUpload |-> NullSize,
     lastUploadSrc |-> ""]

\* What a step does that its surroundings can see: GL calls, callbacks.
did(w, s) == [w EXCEPT !.ops = @ \cup s]

onError(w) == did(w, {"onError"})

\* Mutant of renderFrame: the size of the last upload is not compared.
renderFrame_nosize(w) ==
    IF w.gl = NoCtx \/ w.texture = 0 THEN w
    ELSE IF w.contextLost \/ ~w.isVisible THEN w
    ELSE IF w.readyState < HAVE_CURRENT_DATA THEN w
    ELSE IF ~w.textureInitialized
      THEN [did(w, {"clear", "bindTexture", "texImage2D", "drawArrays"})
              EXCEPT !.textureInitialized = TRUE, !.lastTextureSize = w.size,
                     !.texStorage = w.size]
      ELSE did(w, {"clear", "bindTexture", "texSubImage2D", "drawArrays"})

\* renderFrame
renderFrame(w) ==
    IF w.gl = NoCtx \/ w.texture = 0 THEN w
    ELSE IF w.contextLost \/ ~w.isVisible THEN w
    ELSE IF w.readyState < HAVE_CURRENT_DATA THEN w
    ELSE IF ~w.textureInitialized \/ w.lastTextureSize = NullSize
            \/ w.lastTextureSize # w.size
      THEN [did(w, {"clear", "bindTexture", "texImage2D", "drawArrays"})
              EXCEPT !.textureInitialized = TRUE, !.lastTextureSize = w.size,
                     !.texStorage = w.size]
      ELSE did(w, {"clear", "bindTexture", "texSubImage2D", "drawArrays"})

\* Mutant of onVideoFrame: the decoder's state is not looked at.
onVideoFrame_unchecked(w) ==
    [renderFrame(w) EXCEPT !.vfcRef = "live", !.vfcN = @ + 1]

\* onVideoFrame: the body of a video-frame callback that has just fired.
onVideoFrame(w) ==
    IF (w.phase = "unmounted" /\ ~w.external) \/ w.paused \/ w.ended THEN w
    ELSE [renderFrame(w) EXCEPT !.vfcRef = "live", !.vfcN = @ + 1]

\* render: the requestAnimationFrame fallback loop body.
render(w) ==
    IF (w.phase = "unmounted" /\ ~w.external) \/ w.paused \/ w.ended THEN w
    ELSE [renderFrame(w) EXCEPT !.rafRef = "live", !.rafN = @ + 1]

\* startRenderLoop
startRenderLoop(w) ==
    IF w.hasVFC
      THEN [w EXCEPT !.vfcRef = "live", !.vfcN = @ + 1]
      ELSE render(w)

\* Mutant of stopRenderLoop: the animation frame is not cancelled.
stopRenderLoop_vfconly(w) ==
    IF w.vfcRef # "null" /\ w.hasVFC
      THEN [w EXCEPT !.vfcN = IF w.vfcRef = "live" THEN @ - 1 ELSE @,
                     !.vfcRef = "null"]
      ELSE w

\* stopRenderLoop: cancels the callback each ref names (a ref may name a
\* callback that already fired: cancelling it does nothing).
stopRenderLoop(w) ==
    LET w1 == IF w.vfcRef # "null" /\ w.hasVFC
                THEN [w EXCEPT !.vfcN = IF w.vfcRef = "live" THEN @ - 1 ELSE @,
                               !.vfcRef = "null"]
                ELSE w
    IN IF w1.rafRef # "null"
         THEN [w1 EXCEPT !.rafN = IF w1.rafRef = "live" THEN @ - 1 ELSE @,
                         !.rafRef = "null"]
         ELSE w1

\* initWebGL. ctxOK: whether canvas.getContext yields a context (the same
\* object on every later call); o: what the driver answers to the
\* compile/link/createBuffer sequence, the same to the cache's attempt and
\* to the fallback's that follows it.
initWebGL(w, cache, n, ctxOK, o) ==
    IF w.contextLost
      THEN [w |-> w, cache |-> cache, n |-> n, ok |-> FALSE]
    ELSE IF w.gl = NoCtx /\ ~ctxOK
      THEN [w |-> onError(w), cache |-> cache, n |-> n, ok |-> FALSE]
    ELSE
      LET w1 == [w EXCEPT !.gl = "c1"]
          r  == getOrCreateResources(cache, "c1", o, n + 1, w.gen)
          n1 == IF r.compiled /\ r.ret # NoRes THEN n + 1 ELSE n
          sv == setupVertexAttributes(r.cache, "c1", r.ret)
          tex(x) == [did(x, {"createTexture", "bindTexture", "texParameteri",
                                "enable", "blendFunc", "clearColor"})
                       EXCEPT !.texture = w.gen + 1, !.texStorage = NullSize]
      IN IF r.ret # NoRes
           THEN [w |-> tex([did(w1, {"useProgram", "bindBuffer", "vertexAttribPointer"})
                              EXCEPT !.program = r.ret.program, !.programGen = r.ret.gen]),
                 cache |-> sv.cache, n |-> n1, ok |-> TRUE]
         ELSE IF o \in {"createShader", "createProgram"}
           THEN [w |-> did(w1, {"compileShader"}),
                 cache |-> r.cache, n |-> n1, ok |-> FALSE]
         ELSE IF o \in {"compile", "link"}
           THEN [w |-> onError(did(w1, {"compileShader"})),
                 cache |-> r.cache, n |-> n1, ok |-> FALSE]
         ELSE [w |-> tex([did(w1, {"compileShader", "linkProgram", "useProgram",
                                      "bindBuffer", "bufferData", "vertexAttribPointer"})
                            EXCEPT !.program = n1 + 1, !.programGen = w.gen]),
               cache |-> r.cache, n |-> n1 + 1, ok |-> TRUE]

\* Mutant of handleVisibilityChange: a paused video is played whenever the
\* canvas becomes visible.
handleVisibilityChange_always(w, isVisible, playOK) ==
    LET w1 == [w EXCEPT !.isVisible = isVisible]
    IN IF isVisible
         THEN IF w1.paused
                THEN videoPlay(w1, playOK)
                ELSE w1
         ELSE stopRenderLoop(
                IF ~w1.paused
                  THEN videoPause([w1 EXCEPT !.wasPlayingBeforeHidden = TRUE])
                  ELSE [w1 EXCEPT !.wasPlayingBeforeHidden = FALSE])

\* handleVisibilityChange(isVisible); playOK: whether play() is accepted.
handleVisibilityChange(w, isVisible, playOK) ==
    LET w1 == [w EXCEPT !.isVisible = isVisible]
    IN IF isVisible
         THEN IF w1.wasPlayingBeforeHidden /\ w1.paused
                THEN videoPlay(w1, playOK)
                ELSE w1
         ELSE stopRenderLoop(
                IF ~w1.paused
                  THEN videoPause([w1 EXCEPT !.wasPlayingBeforeHidden = TRUE])
                  ELSE [w1 EXCEPT !.wasPlayingBeforeHidden = FALSE])

\* Canvas size for a decoded size: width x height / 2.
OutputSize(sz) == <<sz[1], sz[2] \div 2>>

\* The width and height props; 0 stands for a prop that is not given.
WithSize(w, width, height) == [w EXCEPT !.width = width, !.height = height]

\* outputWidth: width || video.videoWidth
outputWidth(w) == IF w.width # 0 THEN w.width ELSE w.size[1]

\* Twice outputHeight (height || video.videoHeight / 2): the quotient is a
\* Number, so it has a fractional part when videoHeight is odd.
outputHeight2(w) == IF w.height # 0 THEN 2 * w.height ELSE w.size[2]

\* canvas.width !== outputWidth || canvas.height !== outputHeight
canvasDiffers(w) ==
    w.canvas[1] # outputWidth(w) \/ 2 * w.canvas[2] # outputHeight2(w)

\* canvas.width = outputWidth; canvas.height = outputHeight (the attribute is
\* an unsigned long: the assignment drops the fractional part), then the GL
\* state the resize cleared is set again.
resizeCanvas(w) ==
    [did(w, {"resize", "viewport", "enable", "blendFunc", "clearColor"})
       EXCEPT !.canvas = <<outputWidth(w), outputHeight2(w) \div 2>>]

\* Mutant of handleLoadedData: a rejected play() is reported.
handleLoadedData_reporting(w, playOK) ==
    IF w.gl = NoCtx THEN w
    ELSE LET w1 == IF canvasDiffers(w) THEN resizeCanvas(w) ELSE w
             w2 == did(renderFrame(w1), {"onCanPlay"})
         IN IF w2.autoPlay /\ w2.paused
              THEN IF playOK THEN videoPlay(w2, playOK)
                             ELSE onError(videoPlay(w2, playOK))
              ELSE w2

\* handleLoadedData
handleLoadedData(w, playOK) ==
    IF w.gl = NoCtx THEN w
    ELSE LET w1 == IF canvasDiffers(w) THEN resizeCanvas(w) ELSE w
             w2 == did(renderFrame(w1), {"onCanPlay"})
         IN IF w2.autoPlay /\ w2.paused THEN videoPlay(w2, playOK) ELSE w2

\* handlePlay
handlePlay(w) == startRenderLoop(did(w, {"onPlay"}))

\* handlePause
handlePause(w) == stopRenderLoop(w)

\* handleEnded
handleEnded(w) == did(stopRenderLoop(w), {"onEnded"})

\* Mutant of handleError: the source is assigned again and played.
handleError_retry(w) ==
    did(videoPlay(videoLoad(w, w.src), TRUE), {"handleError", "onError"})

\* handleError
handleError(w) == did(w, {"handleError", "onError"})

\* handleContextLost
handleContextLost(w) == stopRenderLoop([w EXCEPT !.contextLost = TRUE])

\* The src effect: if (video && video.src !== src) video.src = src.
\* "sameSrc" marks an assignment of the value the attribute already holds.
srcEffect(w) ==
    IF Resolve(w.vsrc) # w.src
      THEN did(videoLoad(w, w.src),
               IF w.vsrc = w.src THEN {"srcAssign", "sameSrc"} ELSE {"srcAssign"})
      ELSE w

\* handleContextRestored
handleContextRestored(w, cache, n, o) ==
    LET r == initWebGL([w EXCEPT !.contextLost = FALSE], cache, n, TRUE, o)
    IN [r EXCEPT !.w = IF r.w.readyState >= HAVE_CURRENT_DATA /\ ~r.w.paused
                         THEN startRenderLoop(r.w)
                         ELSE r.w]

\* The mount effect's setup: observer, context listeners, initWebGL, and the
\* media listeners if initWebGL succeeded.
mountEffect(w, cache, n, ctxOK, o) ==
    LET r == initWebGL([w EXCEPT !.obsLast = "none"], cache, n, ctxOK, o)
    IN [r EXCEPT !.w = [r.w EXCEPT !.videoListeners = r.ok]]

\* The mount effect's cleanup; it exists only if the setup ran to its end.
mountCleanup(w) ==
    IF w.videoListeners
      THEN stopRenderLoop([w EXCEPT !.videoListeners = FALSE])
      ELSE w

(***************************************************************************)
(* Steps of the component (platform "web").                                *)
(***************************************************************************)
Uploads(w) == "texImage2D" \in w.ops \/ "texSubImage2D" \in w.ops

\* What a step leaves behind: the GL calls it made (ops) and the record of
\* the last upload (its frame size, the source it came from); "firstOfSrc"
\* marks the first upload made from a source.
Observe(w) ==
    [w EXCEPT !.uploaded = @ \/ Uploads(w),
              !.ops = IF Uploads(w) /\ (~w.uploaded \/ w.lastUploadSrc # w.vsrc)
                        THEN @ \cup {"firstOfSrc"} ELSE @,
              !.lastUpload = IF Uploads(w) THEN w.size ELSE @,
              !.lastUploadSrc = IF Uploads(w) THEN w.vsrc ELSE @]

W0 == [web EXCEPT !.ops = {}]

\* A step of the surroundings that disturbs playback (scrolling, a prop
\* change, a context loss, a stall); MaxEnv bounds how many one behaviour
\* holds.
E0 == [web EXCEPT !.ops = {}, !.env = @ + 1]

WebStep(w, cache, n) ==
    /\ platform = "web"
    /\ w.vfcN <= MaxPending
    /\ w.rafN <= MaxPending
    /\ Len(w.evq) <= MaxQueue
    /\ n <= MaxRes
    /\ w.env <= MaxEnv
    /\ web' = Observe(w)
    /\ resourceCache' = cache
    /\ nextRes' = n
    /\ UNCHANGED <<platform, cs, nat, hook, tools>>

Mount(ctxOK, o) ==
    /\ platform = "web"
    /\ web.phase = "new"
    /\ LET r == mountEffect(W0, resourceCache, nextRes, ctxOK, o)
       IN WebStep(srcEffect([r.w EXCEPT !.phase = "mounted"]), r.cache, r.n)

\* The mount effect runs again (one of its dependencies changed); a canvas
\* that gave no context at mount gives none now.
EffectRerun(o) ==
    /\ platform = "web"
    /\ web.phase = "mounted"
    /\ LET r == mountEffect(mountCleanup(did(E0, {"effectRerun"})),
                            resourceCache, nextRes, web.gl # NoCtx, o)
       IN WebStep(r.w, r.cache, r.n)

Unmount ==
    /\ platform = "web"
    /\ web.phase = "mounted"
    /\ WebStep([mountCleanup(E0) EXCEPT !.phase = "unmounted"], resourceCache, nextRes)

SetSrc(s) ==
    /\ platform = "web"
    /\ web.phase = "mounted"
    /\ s # web.src
    /\ LET w1 == [E0 EXCEPT !.src = s]
       IN WebStep(srcEffect(IF w1.external THEN w1 ELSE videoLoad(w1, s)),
                  resourceCache, nextRes)

\* The IntersectionObserver's callback: once after observe() with the
\* current state, then on every change of it. hiddenAs keeps what the video
\* was doing when the canvas was last reported hidden.
ObserverCallback(vis, playOK) ==
    /\ platform = "web"
    /\ web.phase = "mounted"
    /\ web.obsLast # (IF vis THEN "visible" ELSE "hidden")
    /\ WebStep(handleVisibilityChange(
                 [E0 EXCEPT !.obsLast = IF vis THEN "visible" ELSE "hidden",
                            !.hiddenAs = IF vis THEN @
                                         ELSE IF web.paused THEN "paused"
                                         ELSE "playing"],
                 vis, playOK),
               resourceCache, nextRes)

MediaLoaded(sz) ==
    /\ platform = "web"
    /\ web.phase = "mounted"
    /\ web.readyState = 0 /\ ~web.error
    /\ WebStep([W0 EXCEPT !.readyState = HAVE_CURRENT_DATA, !.size = sz,
                          !.evq = Append(@, "loadeddata")],
               resourceCache, nextRes)

\* Loading the media fails: the element sets its error attribute and queues
\* an error event.
MediaError ==
    /\ platform = "web"
    /\ web.phase = "mounted"
    /\ web.readyState = 0 /\ ~web.error
    /\ WebStep([E0 EXCEPT !.error = TRUE, !.evq = Append(@, "error")],
               resourceCache, nextRes)

Underrun ==
    /\ platform = "web"
    /\ web.phase = "mounted"
    /\ web.readyState >= HAVE_CURRENT_DATA
    /\ WebStep([E0 EXCEPT !.readyState = 1], resourceCache, nextRes)

Recover ==
    /\ platform = "web"
    /\ web.phase = "mounted"
    /\ web.readyState = 1
    /\ WebStep([W0 EXCEPT !.readyState = HAVE_CURRENT_DATA], resourceCache, nextRes)

\* Playback reaches the end of the media: an element with the loop
\* attribute seeks to the start and plays on; any other one ends and queues
\* the task that pauses it and fires pause and ended.
NaturalEnd ==
    /\ platform = "web"
    /\ web.phase = "mounted"
    /\ ~web.paused /\ ~web.ended
    /\ web.readyState >= HAVE_CURRENT_DATA
    /\ WebStep(IF web.vloop
                 THEN did(W0, {"mediaEnd", "seekToStart"})
                 ELSE [did(W0, {"mediaEnd"})
                         EXCEPT !.ended = TRUE, !.evq = Append(@, "endtask")],
               resourceCache, nextRes)

\* The head of the media element's event queue is dispatched.
Dispatch(playOK) ==
    /\ platform = "web"
    /\ web.evq # <<>>
    /\ LET e  == Head(web.evq)
           w1 == [W0 EXCEPT !.evq = Tail(@)]
           on == w1.videoListeners
           w2 == IF e = "endtask" /\ w1.ended /\ ~w1.paused
                   THEN IF on THEN handlePause([w1 EXCEPT !.paused = TRUE])
                              ELSE [w1 EXCEPT !.paused = TRUE]
                   ELSE w1
       IN WebStep(IF ~on THEN w2
                  ELSE IF e = "loadeddata" THEN handleLoadedData(w2, playOK)
                  ELSE IF e = "play" THEN handlePlay(w2)
                  ELSE IF e = "pause" THEN handlePause(w2)
                  ELSE IF e = "error" THEN handleError(w2)
                  ELSE handleEnded(w2),
                  resourceCache, nextRes)

\* A pending video-frame callback fires ("tick"): the one the ref names, or
\* another.
VfcTick(tracked) ==
    /\ platform = "web"
    /\ web.vfcN > 0
    /\ IF tracked THEN web.vfcRef = "live"
                  ELSE web.vfcN > (IF web.vfcRef = "live" THEN 1 ELSE 0)
    /\ WebStep(onVideoFrame([W0 EXCEPT !.vfcN = @ - 1, !.ops = {"tick"},
                                       !.vfcRef = IF tracked THEN "stale" ELSE @]),
               resourceCache, nextRes)

\* A pending animation-frame callback fires.
RafTick(tracked) ==
    /\ platform = "web"
    /\ web.rafN > 0
    /\ IF tracked THEN web.rafRef = "live"
                  ELSE web.rafN > (IF web.rafRef = "live" THEN 1 ELSE 0)
    /\ WebStep(render([W0 EXCEPT !.rafN = @ - 1, !.ops = {"tick"},
                                 !.rafRef = IF tracked THEN "stale" ELSE @]),
               resourceCache, nextRes)

\* The browser loses the context and fires webglcontextlost.
ContextLost ==
    /\ platform = "web"
    /\ web.phase = "mounted"
    /\ web.gl # NoCtx
    /\ ~web.contextLost
    /\ WebStep(handleContextLost(E0), resourceCache, nextRes)

\* The browser restores the context (a new generation of GL objects) and
\* fires webglcontextrestored.
ContextRestored(o) ==
    /\ platform = "web"
    /\ web.phase = "mounted"
    /\ web.contextLost
    /\ web.gen < MaxGen
    /\ LET r == handleContextRestored([W0 EXCEPT !.gen = @ + 1],
                                      resourceCache, nextRes, o)
       IN WebStep(r.w, r.cache, r.n)

NextWeb ==
    \/ \E ok \in BOOLEAN, o \in GLOutcomes : Mount(ok, o)
    \/ \E o \in GLOutcomes : EffectRerun(o)
    \/ Unmount
    \/ \E s \in Srcs : SetSrc(s)
    \/ \E vis, ok \in BOOLEAN : ObserverCallback(vis, ok)
    \/ \E sz \in Sizes : MediaLoaded(sz)
    \/ MediaError
    \/ Underrun
    \/ Recover
    \/ NaturalEnd
    \/ \E ok \in BOOLEAN : Dispatch(ok)
    \/ \E t \in BOOLEAN : VfcTick(t)
    \/ \E t \in BOOLEAN : RafTick(t)
    \/ ContextLost
    \/ \E o \in GLOutcomes : ContextRestored(o)


(***************************************************************************)
(* useStackedAlpha (platform "hook"): the hook owns its <video>, compiles  *)
(* its own program and runs one requestAnimationFrame loop.                *)
(***************************************************************************)
HookInit(ap, s) ==
    [phase |-> "new", autoPlay |-> ap, src |-> s,
     vsrc |-> "", paused |-> TRUE, ended |-> FALSE, readyState |-> 0,
     size |-> NoSize, evq |-> <<>>,
     rafN |-> 0, rafRef |-> "null",
     gl |-> NoCtx, texture |-> 0, canvas |-> <<300, 150>>,
     textureInitialized |-> FALSE, lastTextureSize |-> NullSize,
     videoListeners |-> FALSE, env |-> 0,
     ops |-> {}, uploaded |-> FALSE, lastUpload |-> NullSize,
     lastUploadSrc |-> ""]

\* render of useStackedAlpha
hookRender(h) ==
    IF h.gl = NoCtx \/ h.texture = 0 \/ h.paused \/ h.ended THEN h
    ELSE IF ~h.textureInitialized \/ h.lastTextureSize = NullSize
            \/ h.lastTextureSize # h.size
      THEN [did(h, {"clear", "bindTexture", "texImage2D", "drawArrays"})
              EXCEPT !.textureInitialized = TRUE, !.lastTextureSize = h.size,
                     !.rafRef = "live", !.rafN = @ + 1]
      ELSE [did(h, {"clear", "bindTexture", "texSubImage2D", "drawArrays"})
              EXCEPT !.rafRef = "live", !.rafN = @ + 1]

\* initWebGL of useStackedAlpha: always compiles; a new texture on success.
hookInitWebGL(h, ctxOK, o) ==
    IF h.gl = NoCtx /\ ~ctxOK
      THEN [h |-> did(h, {"setError"}), ok |-> FALSE]
    ELSE LET h1 == [h EXCEPT !.gl = "c1"]
         IN IF o \in {"createShader", "createProgram"}
              THEN [h |-> did(h1, {"compileShader"}), ok |-> FALSE]
            ELSE IF o \in {"compile", "link"}
              THEN [h |-> did(h1, {"compileShader", "setError"}), ok |-> FALSE]
            ELSE [h |-> [did(h1, {"compileShader", "linkProgram", "useProgram",
                                   "bindBuffer", "bufferData", "vertexAttribPointer",
                                   "createTexture", "bindTexture", "texParameteri",
                                   "enable", "blendFunc", "clearColor"})
                           EXCEPT !.texture = 1],
                  ok |-> TRUE]

\* The hook's effect: video.src = src, initWebGL, listeners, autoplay.
hookEffect(h, ctxOK, o, playOK) ==
    LET r  == hookInitWebGL(did(videoLoad(h, h.src), {"srcAssign"}), ctxOK, o)
        h1 == [r.h EXCEPT !.videoListeners = r.ok]
    IN IF r.ok /\ h1.autoPlay THEN videoPlay(h1, playOK) ELSE h1

\* The effect's cleanup; it exists only if the setup ran to its end. The
\* animation frame the ref names is cancelled, the ref keeps naming it.
hookCleanup(h) ==
    IF ~h.videoListeners THEN h
    ELSE LET h1 == [h EXCEPT !.videoListeners = FALSE]
         IN IF h1.rafRef # "null"
              THEN [h1 EXCEPT !.rafN = IF h1.rafRef = "live" THEN @ - 1 ELSE @,
                              !.rafRef = "stale"]
              ELSE h1

\* handleLoadedData of useStackedAlpha
hookLoadedData(h) ==
    IF h.gl = NoCtx THEN h
    ELSE [did(h, {"resize", "viewport", "setIsReady"})
            EXCEPT !.canvas = OutputSize(h.size)]

H0 == [hook EXCEPT !.ops = {}]

HE0 == [hook EXCEPT !.ops = {}, !.env = @ + 1]

HookStep(h) ==
    /\ platform = "hook"
    /\ h.rafN <= MaxPending
    /\ Len(h.evq) <= MaxQueue
    /\ h.env <= MaxEnv
    /\ hook' = Observe(h)
    /\ UNCHANGED <<platform, resourceCache, nextRes, cs, web, nat, tools>>

HookMount(ctxOK, o, playOK) ==
    /\ platform = "hook"
    /\ hook.phase = "new"
    /\ HookStep(hookEffect([H0 EXCEPT !.phase = "mounted"], ctxOK, o, playOK))

\* A new src (or other dependency): cleanup, then the effect again.
HookSetSrc(s, o, playOK) ==
    /\ platform = "hook"
    /\ hook.phase = "mounted"
    /\ HookStep(hookEffect(hookCleanup([HE0 EXCEPT !.src = s]), TRUE, o, playOK))

HookUnmount ==
    /\ platform = "hook"
    /\ hook.phase = "mounted"
    /\ HookStep([hookCleanup(HE0) EXCEPT !.phase = "unmounted"])

\* play() / pause() returned by the hook, called by its user.
HookPlay(playOK) ==
    /\ platform = "hook"
    /\ hook.phase = "mounted"
    /\ hook.paused
    /\ HookStep(videoPlay(HE0, playOK))

HookPause ==
    /\ platform = "hook"
    /\ hook.phase = "mounted"
    /\ ~hook.paused
    /\ HookStep(videoPause(HE0))

HookMediaLoaded(sz) ==
    /\ platform = "hook"
    /\ hook.phase = "mounted"
    /\ hook.readyState = 0
    /\ hook.vsrc # ""
    /\ HookStep([H0 EXCEPT !.readyState = HAVE_CURRENT_DATA, !.size = sz,
                           !.evq = Append(@, "loadeddata")])

HookDispatch ==
    /\ platform = "hook"
    /\ hook.evq # <<>>
    /\ LET e  == Head(hook.evq)
           h1 == [H0 EXCEPT !.evq = Tail(@)]
       IN HookStep(IF ~h1.videoListeners THEN h1
                   ELSE IF e = "loadeddata" THEN hookLoadedData(h1)
                   ELSE IF e = "play" THEN hookRender(did(h1, {"setIsPlaying"}))
                   ELSE did(h1, {"setIsPlaying"}))

\* A pending animation-frame callback of the hook fires.
HookRafTick(tracked) ==
    /\ platform = "hook"
    /\ hook.rafN > 0
    /\ IF tracked THEN hook.rafRef = "live"
                  ELSE hook.rafN > (IF hook.rafRef = "live" THEN 1 ELSE 0)
    /\ HookStep(hookRender([H0 EXCEPT !.rafN = @ - 1,
                                      !.rafRef = IF tracked THEN "stale" ELSE @]))

NextHook ==
    \/ \E ok \in BOOLEAN, o \in GLOutcomes, p \in BOOLEAN : HookMount(ok, o, p)
    \/ \E s \in Srcs, o \in GLOutcomes, p \in BOOLEAN : HookSetSrc(s, o, p)
    \/ HookUnmount
    \/ \E p \in BOOLEAN : HookPlay(p)
    \/ HookPause
    \/ \E sz \in Sizes : HookMediaLoaded(sz)
    \/ HookDispatch
    \/ \E t \in BOOLEAN : HookRafTick(t)

(***************************************************************************)
(* StackedAlphaVideoView (platform "native"): the Swift view of            *)
(* packages/swift; packages/expo/ios has the same operations.              *)
(***************************************************************************)
Uris == {"", "/a.mov", "/b.mov", "/missing.mov"}

\* FileManager.fileExists for the file URLs of the model.
FileExists(u) == u # "/missing.mov"

\* Player-item status; NoStatus while there is no item.
NoStatus == "none"

\* statusTimeoutTimer = nil
NoTimer == -1

\* Seconds after which the status timeout timer fires.
StatusTimeout == 30

\* The view's stored properties before init has run. callbacks: whether the
\* application has assigned onLoad / onEnd / onError (they are nil until
\* init has returned). clock: seconds since loading began; timerDue: the
\* clock value at which statusTimeoutTimer fires; timeouts: timeout errors
\* reported since loading began.
NatInit ==
    [created |-> FALSE, metal |-> FALSE, callbacks |-> FALSE,
     trapped |-> FALSE, released |-> FALSE,
     sourceUri |-> "", player |-> FALSE, rate |-> 0, isPaused |-> FALSE,
     shouldLoop |-> TRUE,
     displayLink |-> FALSE, superview |-> FALSE, lastTexture |-> 0,
     consecutiveTextureFailures |-> 0, isSetup |-> FALSE,
     status |-> NoStatus, timerDue |-> NoTimer, clock |-> 0, timeouts |-> 0,
     frames |-> 0, drew |-> 0, ops |-> {}]

\* onLoad?() / onEnd?() / onError?(msg): a call through an optional closure.
callback(v, name) == IF v.callbacks THEN did(v, {name}) ELSE v

\* setupMetal. ok: the device, the command queue and the texture cache are
\* all obtained.
setupMetal(v, ok) ==
    IF ok THEN [v EXCEPT !.metal = TRUE] ELSE callback(v, "onError")

\* commonInit: setupMetal, startDisplayLink.
commonInit(v, ok) ==
    [setupMetal(v, ok) EXCEPT !.displayLink = TRUE, !.created = TRUE]

\* didMoveToSuperview: if superview == nil { stopDisplayLink() }
didMoveToSuperview(v) ==
    IF ~v.superview THEN [v EXCEPT !.displayLink = FALSE] ELSE v

\* Mutant of cleanupPlayer: the cached texture survives the teardown.
cleanupPlayer_keeptexture(v) ==
    [did(v, {"cleanupPlayer"})
       EXCEPT !.player = FALSE, !.rate = 0, !.displayLink = FALSE,
              !.timerDue = NoTimer, !.status = NoStatus,
              !.consecutiveTextureFailures = 0, !.isSetup = FALSE]

\* cleanupPlayer
cleanupPlayer(v) ==
    [did(v, {"cleanupPlayer"})
       EXCEPT !.player = FALSE, !.rate = 0, !.displayLink = FALSE,
              !.timerDue = NoTimer, !.status = NoStatus,
              !.lastTexture = 0, !.consecutiveTextureFailures = 0,
              !.isSetup = FALSE]

\* setupVideo
setupVideo(v) ==
    IF v.sourceUri = "" THEN v
    ELSE LET v1 == cleanupPlayer(v)
         IN IF ~FileExists(v1.sourceUri)
              THEN callback(v1, "onError")
              ELSE [did(v1, {"setupVideo"})
                      EXCEPT !.player = TRUE, !.displayLink = TRUE,
                             !.status = "unknown", !.clock = 0, !.timeouts = 0,
                             !.rate = IF v1.isPaused THEN 0 ELSE 1,
                             !.isSetup = TRUE]

\* The sourceUri setter (setSourceUri in the Expo view).
setSourceUri(v, newValue) ==
    IF newValue = v.sourceUri THEN v
    ELSE LET v1 == [v EXCEPT !.sourceUri = newValue]
         IN IF newValue # "" THEN setupVideo(v1) ELSE v1

\* The paused setter (setPaused in the Expo view).
setPaused(v, p) ==
    [v EXCEPT !.isPaused = p,
              !.rate = IF ~v.player THEN 0 ELSE IF p THEN 0 ELSE 1]

\* Mutant of createTexture: the error is reported at every failure from the
\* limit on.
createTexture_atleast(v, texOK, n) ==
    IF ~texOK
      THEN [v |-> [(IF v.consecutiveTextureFailures + 1 >= TextureFailureLimit
                      THEN callback(did(v, {"repeatedFailure"}), "onError")
                      ELSE v)
                     EXCEPT !.consecutiveTextureFailures = @ + 1],
            tex |-> 0]
      ELSE [v |-> [v EXCEPT !.consecutiveTextureFailures = 0, !.frames = n],
            tex |-> n]

\* createTexture(from:): n names the texture a successful call returns.
\* "repeatedFailure" marks the report of repeated failures.
createTexture(v, texOK, n) ==
    IF ~texOK
      THEN [v |-> [(IF v.consecutiveTextureFailures + 1 = TextureFailureLimit
                      THEN callback(did(v, {"repeatedFailure"}), "onError")
                      ELSE v)
                     EXCEPT !.consecutiveTextureFailures = @ + 1],
            tex |-> 0]
      ELSE [v |-> [v EXCEPT !.consecutiveTextureFailures = 0, !.frames = n],
            tex |-> n]

\* Mutant of draw(in:): the cached texture is dropped when no new one is made.
draw_dropping(v, hasNew, texOK, drawable) ==
    IF ~v.player THEN v
    ELSE IF ~(v.rate # 0 \/ v.isPaused) THEN v
    ELSE LET c  == IF hasNew THEN createTexture(v, texOK, v.frames + 1)
                             ELSE [v |-> v, tex |-> 0]
             v1 == [c.v EXCEPT !.lastTexture = c.tex]
         IN IF v1.lastTexture = 0 \/ ~drawable THEN v1
            ELSE [did(v1, {"drawPrimitives"}) EXCEPT !.drew = v1.lastTexture]

\* draw(in:). hasNew: a new pixel buffer is there and copied; texOK: the
\* texture cache makes a texture from it; drawable: the view hands out a
\* drawable and an encoder.
draw(v, hasNew, texOK, drawable) ==
    IF ~v.player THEN v
    ELSE IF ~(v.rate # 0 \/ v.isPaused) THEN v
    ELSE LET c  == IF hasNew THEN createTexture(v, texOK, v.frames + 1)
                             ELSE [v |-> v, tex |-> 0]
             v1 == IF c.tex # 0 THEN [c.v EXCEPT !.lastTexture = c.tex] ELSE c.v
         IN IF v1.lastTexture = 0 \/ ~drawable THEN v1
            ELSE [did(v1, {"drawPrimitives"}) EXCEPT !.drew = v1.lastTexture]

\* displayLinkCallback: metalView.draw(). metalView is an implicitly
\* unwrapped optional that setupMetal leaves nil when it fails: the call
\* then traps and the process ends.
displayLinkCallback(v, hasNew, texOK, drawable) ==
    IF ~v.metal THEN [did(v, {"trap"}) EXCEPT !.trapped = TRUE]
    ELSE draw(v, hasNew, texOK, drawable)

\* Mutant of observeValue: a pending timer is left running.
observeValue_nocancel(v, st) ==
    LET v1 == [v EXCEPT !.status = st]
    IN IF st = "readyToPlay" THEN callback(v1, "onLoad")
       ELSE IF st = "failed" THEN callback(did(v1, {"statusFailed"}), "onError")
       ELSE [v1 EXCEPT !.timerDue = v1.clock + StatusTimeout]

\* observeValue(forKeyPath: "status"), run when the item announces a new
\* status st.
observeValue(v, st) ==
    LET v1 == [v EXCEPT !.status = st, !.timerDue = NoTimer]
    IN IF st = "readyToPlay" THEN callback(v1, "onLoad")
       ELSE IF st = "failed" THEN callback(did(v1, {"statusFailed"}), "onError")
       ELSE [v1 EXCEPT !.timerDue = v1.clock + StatusTimeout]

\* The block of statusTimeoutTimer.
statusTimeoutFired(v) ==
    LET v1 == [v EXCEPT !.timerDue = NoTimer]
    IN IF v1.status = "unknown"
         THEN [callback(did(v1, {"timeout"}), "onError") EXCEPT !.timeouts = @ + 1]
         ELSE v1

\* deinit: cleanup.
deinit(v) == [cleanupPlayer(v) EXCEPT !.released = TRUE]

N0 == [nat EXCEPT !.ops = {}, !.drew = 0]

\* A run of texture failures longer than MaxFailures is followed only from
\* the first frame of a playing first source, up to MaxRun failures.
LongRun(v) ==
    /\ v.consecutiveTextureFailures <= MaxRun
    /\ v.callbacks /\ v.player /\ ~v.isPaused /\ v.shouldLoop
    /\ v.frames = 0 /\ v.clock = 0 /\ v.status = "readyToPlay"
    /\ v.timerDue = NoTimer /\ v.sourceUri = "/a.mov"

NatStep(v) ==
    /\ platform = "native"
    /\ ~nat.trapped /\ ~nat.released
    /\ v.frames <= MaxFrames
    /\ v.consecutiveTextureFailures <= MaxFailures \/ LongRun(v)
    /\ v.clock <= MaxClock
    /\ nat' = v
    /\ UNCHANGED <<platform, resourceCache, nextRes, cs, web, hook, tools>>

\* init(frame:)
NatCreate(metalOK) ==
    /\ platform = "native"
    /\ ~nat.created
    /\ NatStep(commonInit(N0, metalOK))

\* The application assigns onLoad, onEnd and onError.
NatSetCallbacks ==
    /\ platform = "native"
    /\ nat.created /\ ~nat.callbacks
    /\ NatStep([N0 EXCEPT !.callbacks = TRUE])

NatSetSource(u) ==
    /\ platform = "native"
    /\ nat.callbacks
    /\ NatStep(setSourceUri(N0, u))

NatSetPaused(p) ==
    /\ platform = "native"
    /\ nat.callbacks
    /\ NatStep(setPaused(N0, p))

\* The display link fires. The video output has new pixel buffers only
\* once the item is ready to play.
NatDraw(hasNew, texOK, drawable) ==
    /\ platform = "native"
    /\ nat.displayLink
    /\ hasNew => nat.status = "readyToPlay"
    /\ NatStep(displayLinkCallback(N0, hasNew, texOK, drawable))

\* The view is added to a superview (sv) or removed from its superview.
NatMoveToSuperview(sv) ==
    /\ platform = "native"
    /\ nat.created
    /\ sv # nat.superview
    /\ NatStep(didMoveToSuperview([N0 EXCEPT !.superview = sv]))

NatSetLoop(l) ==
    /\ platform = "native"
    /\ nat.callbacks
    /\ NatStep([N0 EXCEPT !.shouldLoop = l])

\* AVPlayerItemDidPlayToEndTime: the player stopped at the end of the item;
\* the observer seeks to zero and plays, or pauses and reports the end.
NatPlayedToEnd ==
    /\ platform = "native"
    /\ nat.player /\ nat.rate # 0 /\ nat.status = "readyToPlay"
    /\ NatStep(IF nat.shouldLoop
                 THEN did(N0, {"playedToEnd", "seek", "play"})
                 ELSE [callback(did(N0, {"playedToEnd"}), "onEnd") EXCEPT !.rate = 0])

\* Key-value observing announces a new value of the item's status: the
\* item became ready or failed, or (st = "unknown") the status was set
\* again with the value it had.
NatStatus(st) ==
    /\ platform = "native"
    /\ nat.player /\ nat.status = "unknown"
    /\ NatStep(observeValue(N0, st))

\* TimeStep seconds pass while the item loads; a timer that is due fires
\* first.
NatTimePasses ==
    /\ platform = "native"
    /\ nat.player /\ nat.status = "unknown"
    /\ nat.timerDue = NoTimer \/ nat.clock + TimeStep <= nat.timerDue
    /\ NatStep([N0 EXCEPT !.clock = @ + TimeStep])

NatTimerFires ==
    /\ platform = "native"
    /\ nat.timerDue # NoTimer /\ nat.clock >= nat.timerDue
    /\ NatStep(statusTimeoutFired(N0))

\* The view is deallocated.
NatDeinit ==
    /\ platform = "native"
    /\ nat.created
    /\ NatStep(deinit(N0))

NextNative ==
    \/ \E ok \in BOOLEAN : NatCreate(ok)
    \/ NatSetCallbacks
    \/ \E u \in Uris : NatSetSource(u)
    \/ \E p \in BOOLEAN : NatSetPaused(p)
    \/ \E l \in BOOLEAN : NatSetLoop(l)
    \/ \E sv \in BOOLEAN : NatMoveToSuperview(sv)
    \/ \E n, t, d \in BOOLEAN : NatDraw(n, t, d)
    \/ NatPlayedToEnd
    \/ \E st \in {"unknown", "readyToPlay", "failed"} : NatStatus(st)
    \/ NatTimePasses
    \/ NatTimerFires
    \/ NatDeinit


(***************************************************************************)
(* The whole model: one component per behaviour.                           *)
(***************************************************************************)
(***************************************************************************)
(* The fragment shaders and the blend stage of each platform.  A channel   *)
(* of the frame buffer is an 8-bit normalized value 0..255.  A shader      *)
(* result is <<c1, c2, c3, a>> with the colour in units of 1/(255*255) and *)
(* the alpha in units of 1/255, so that a product of two sampled channels  *)
(* is exact.                                                               *)
(***************************************************************************)
\* Channel values of the synthetic input frames.
Levels == {0, 64, 128, 255}

\* Frames: top half solid (r, g, b), bottom half solid gray a.
Frames == [r : Levels, g : Levels, b : Levels, a : Levels]

\* The cleared transparent surface: clearColor(0, 0, 0, 0).
Cleared == <<0, 0, 0, 0>>

NoPixel == <<>>

\* Nearest 8-bit value of n / d.
Quantize(n, d) == (2 * n + d) \div (2 * d)

\* The texel of frame f at the vertical texture coordinate vn / vd.
texture2D(f, vn, vd) ==
    IF 2 * vn < vd THEN <<f.r, f.g, f.b, 255>> ELSE <<f.a, f.a, f.a, 255>>

\* v_texCoord.y of the fragment in row j of a surface h rows high, as the
\* fraction <<numerator, denominator>> (fragments are at pixel centres).
texCoordY(j, h) == <<2 * j + 1, 2 * h>>

\* colorCoord.y = v_texCoord.y * 0.5
colorCoord(y) == <<y[1], 2 * y[2]>>

\* alphaCoord.y = 0.5 + v_texCoord.y * 0.5
alphaCoord(y) == <<y[2] + y[1], 2 * y[2]>>

\* fragmentShaderSource (GLSL): gl_FragColor = vec4(color.rgb, alpha)
glslFragment(f, y) ==
    LET color == texture2D(f, colorCoord(y)[1], colorCoord(y)[2])
        alpha == texture2D(f, alphaCoord(y)[1], alphaCoord(y)[2])[1]
    IN <<255 * color[1], 255 * color[2], 255 * color[3], alpha>>

\* fragmentShader (Metal): return float4(rgb.rgb * alpha, alpha)
metalFragment(f, y) ==
    LET rgb   == texture2D(f, colorCoord(y)[1], colorCoord(y)[2])
        alpha == texture2D(f, alphaCoord(y)[1], alphaCoord(y)[2])[1]
    IN <<rgb[1] * alpha, rgb[2] * alpha, rgb[3] * alpha, alpha>>

\* gl.blendFunc(gl.SRC_ALPHA, gl.ONE_MINUS_SRC_ALPHA): the two factors apply
\* to the colour channels and to the alpha channel alike.
glBlend(s, d) ==
    <<Quantize(s[1] * s[4] + 255 * d[1] * (255 - s[4]), 255 * 255),
      Quantize(s[2] * s[4] + 255 * d[2] * (255 - s[4]), 255 * 255),
      Quantize(s[3] * s[4] + 255 * d[3] * (255 - s[4]), 255 * 255),
      Quantize(s[4] * s[4] + d[4] * (255 - s[4]), 255)>>

\* sourceRGBBlendFactor = sourceAlphaBlendFactor = .one,
\* destinationRGBBlendFactor = destinationAlphaBlendFactor = .oneMinusSourceAlpha
metalBlend(s, d) ==
    <<Quantize(255 * s[1] + 255 * d[1] * (255 - s[4]), 255 * 255),
      Quantize(255 * s[2] + 255 * d[2] * (255 - s[4]), 255 * 255),
      Quantize(255 * s[3] + 255 * d[3] * (255 - s[4]), 255 * 255),
      Quantize(255 * s[4] + d[4] * (255 - s[4]), 255)>>

\* The state before anything is drawn: a frame and a surface height.
PixelInit(f, h) ==
    [frame |-> f, rows |-> h, row |-> 0,
     glFrag |-> NoPixel, glPixel |-> NoPixel,
     metalFrag |-> NoPixel, metalPixel |-> NoPixel]

\* renderFrame: gl.clear, then the quad is drawn; row j is looked at.
GlRender(j) ==
    /\ platform = "shader"
    /\ j < pixel.rows
    /\ LET out == glslFragment(pixel.frame, texCoordY(j, pixel.rows))
       IN pixel' = [pixel EXCEPT !.row = j, !.glFrag = out,
                                 !.glPixel = glBlend(out, Cleared),
                                 !.metalFrag = NoPixel, !.metalPixel = NoPixel]
    /\ UNCHANGED <<platform, resourceCache, nextRes, cs, web, nat, hook,
                   preloader, batch>>

\* draw(in:): the render pass clears, then the quad is drawn.
MetalRender(j) ==
    /\ platform = "shader"
    /\ j < pixel.rows
    /\ pixel.glFrag = NoPixel \/ pixel.row = j
    /\ LET out == metalFragment(pixel.frame, texCoordY(j, pixel.rows))
       IN pixel' = [pixel EXCEPT !.row = j, !.metalFrag = out,
                                 !.metalPixel = metalBlend(out, Cleared)]
    /\ UNCHANGED <<platform, resourceCache, nextRes, cs, web, nat, hook,
                   preloader, batch>>

NextShader ==
    \/ \E j \in 0..(MaxRows - 1) : GlRender(j)
    \/ \E j \in 0..(MaxRows - 1) : MetalRender(j)

(***************************************************************************)
(* useVideoPreloader: hidden <video> elements loading in the background.   *)
(***************************************************************************)
\* The urls argument.
PreloadLists ==
    {<<"/a.mp4">>, <<"/a.mp4", "http://h/b.mp4">>, <<"/a.mp4", "/a.mp4">>}

NoElement == 0

\* document.createElement('video') as preloadVideo configures it, appended
\* to the document, with its two once-listeners, loading url.
NewElement(url) ==
    [url |-> url, src |-> url, paused |-> TRUE, attached |-> TRUE,
     canplaythrough |-> TRUE, error |-> TRUE, net |-> "loading"]

PreloaderInit(urls, auto) ==
    [phase |-> "new", urls |-> urls, autoPreload |-> auto,
     videoElementsRef |-> [u \in Srcs |-> NoElement],
     videos |-> [u \in Srcs |-> [status |-> "none", element |-> NoElement]],
     elems |-> <<>>, ops |-> {}]

\* Mutant of preloadVideo: the registry is not consulted.
preloadVideo_nolookup(p, url) ==
    LET id == Len(p.elems) + 1
    IN [p EXCEPT !.elems = Append(@, NewElement(url)),
                 !.videoElementsRef[url] = id,
                 !.videos[url] = [status |-> "loading", element |-> id],
                 !.ops = @ \cup {"createElement"}]

\* preloadVideo
preloadVideo(p, url) ==
    IF p.videoElementsRef[url] # NoElement THEN p
    ELSE LET id == Len(p.elems) + 1
         IN [p EXCEPT !.elems = Append(@, NewElement(url)),
                      !.videoElementsRef[url] = id,
                      !.videos[url] = [status |-> "loading", element |-> id],
                      !.ops = @ \cup {"createElement"}]

\* preloadAll: urls.forEach((url) => preloadVideo(url))
preloadAll(p) ==
    LET f[i \in 0..Len(p.urls)] ==
            IF i = 0 THEN p ELSE preloadVideo(f[i - 1], p.urls[i])
    IN f[Len(p.urls)]

\* The effect's cleanup: every element of the registry is paused, its src
\* set to '' (which makes it fail with an error event) and removed from its
\* parent; the registry is cleared. The videos state is left as it is.
preloaderCleanup(p) ==
    LET reg == {p.videoElementsRef[u] : u \in Srcs} \ {NoElement}
    IN [p EXCEPT !.elems = [e \in 1..Len(p.elems) |->
                               IF e \in reg
                                 THEN [p.elems[e] EXCEPT !.paused = TRUE, !.src = "",
                                          !.attached = FALSE, !.net = "emptied"]
                                 ELSE p.elems[e]],
                 !.videoElementsRef = [u \in Srcs |-> NoElement]]

\* The effect: if (autoPreload) preloadAll()
preloaderEffect(p) == IF p.autoPreload THEN preloadAll(p) ELSE p

P0 == [preloader EXCEPT !.ops = {}]

PreloaderStep(p) ==
    /\ platform = "preloader"
    /\ Len(p.elems) <= MaxElements
    /\ preloader' = p
    /\ UNCHANGED <<platform, resourceCache, nextRes, cs, web, nat, hook,
                   pixel, batch>>

PreloaderMount ==
    /\ platform = "preloader"
    /\ preloader.phase = "new"
    /\ PreloaderStep(preloaderEffect([P0 EXCEPT !.phase = "mounted"]))

\* preload(url), called by the consumer.
Preload(url) ==
    /\ platform = "preloader"
    /\ preloader.phase = "mounted"
    /\ PreloaderStep(preloadVideo(did(P0, {"preload"}), url))

\* preloadAll(), called by the consumer.
PreloadAll ==
    /\ platform = "preloader"
    /\ preloader.phase = "mounted"
    /\ PreloaderStep(preloadAll(did(P0, {"preload"})))

\* The consumer renders again with another urls array (or the same urls in
\* a new array): preloadAll changes identity, the effect is cleaned up and
\* runs again.
PreloaderRerender(urls) ==
    /\ platform = "preloader"
    /\ preloader.phase = "mounted"
    /\ PreloaderStep(preloaderEffect(
           preloaderCleanup([did(P0, {"cleanup"}) EXCEPT !.urls = urls])))

PreloaderUnmount ==
    /\ platform = "preloader"
    /\ preloader.phase = "mounted"
    /\ PreloaderStep([preloaderCleanup(did(P0, {"cleanup"}))
                        EXCEPT !.phase = "unmounted"])

\* The element has buffered enough: canplaythrough; handleCanPlayThrough
\* runs once (setVideos of an unmounted consumer does nothing).
ElementCanPlayThrough(e) ==
    /\ platform = "preloader"
    /\ e \in 1..Len(preloader.elems)
    /\ preloader.elems[e].net = "loading"
    /\ LET el == preloader.elems[e]
           p1 == [P0 EXCEPT !.elems[e].net = "loaded",
                            !.elems[e].canplaythrough = FALSE]
       IN PreloaderStep(IF el.canplaythrough /\ p1.phase = "mounted"
                          THEN [p1 EXCEPT !.videos[el.url] =
                                    [status |-> "ready", element |-> e]]
                          ELSE p1)

\* The element fails to load (network, decoding, or src = ''): error;
\* handleError runs once.
ElementError(e) ==
    /\ platform = "preloader"
    /\ e \in 1..Len(preloader.elems)
    /\ preloader.elems[e].net \in {"loading", "emptied"}
    /\ LET el == preloader.elems[e]
           p1 == [P0 EXCEPT !.elems[e].net = "failed",
                            !.elems[e].error = FALSE]
       IN PreloaderStep(IF el.error /\ p1.phase = "mounted"
                          THEN [p1 EXCEPT !.videos[el.url] =
                                    [status |-> "error", element |-> e]]
                          ELSE p1)

\* The consumer hands getVideo(url) to <StackedAlphaVideo videoElement>,
\* which assigns its src when it differs and plays the element.
ConsumerPlays(url) ==
    /\ platform = "preloader"
    /\ preloader.phase = "mounted"
    /\ preloader.videos[url].status = "ready"
    /\ LET e  == preloader.videos[url].element
           el == preloader.elems[e]
       IN /\ el.paused
          /\ PreloaderStep([did(P0, {"play"}) EXCEPT
                 !.elems[e] = IF el.src # url
                                THEN [el EXCEPT !.src = url, !.net = "loading",
                                                !.paused = FALSE]
                                ELSE [el EXCEPT !.paused = FALSE]])

NextPreloader ==
    \/ PreloaderMount
    \/ \E u \in Srcs : Preload(u)
    \/ PreloadAll
    \/ \E l \in PreloadLists : PreloaderRerender(l)
    \/ PreloaderUnmount
    \/ \E e \in 1..MaxElements : ElementCanPlayThrough(e)
    \/ \E e \in 1..MaxElements : ElementError(e)
    \/ \E u \in Srcs : ConsumerPlays(u)

(***************************************************************************)
(* runBatch of the command line tool.  The processor is the caller's: it   *)
(* resolves or rejects for each file as it likes.                          *)
(***************************************************************************)
\* The call has evaluated its first lines: results = [], i = 0. The files
\* argument holds n files, named by their position in the list.
BatchInit(n, cont) ==
    [files |-> [k \in 1..n |-> k], continueOnError |-> cont, i |-> 0,
     results |-> <<>>, invoked |-> <<>>, pc |-> "loop"]

\* Mutant of iteration: the loop goes on after a failure whatever the
\* options say.
iteration_nobreak(b, ok) ==
    LET file == b.files[b.i + 1]
    IN [b EXCEPT !.invoked = Append(@, file),
                 !.results = Append(@, [input |-> file, success |-> ok]),
                 !.i = @ + 1]

\* One turn of the for loop: await processor(file, i, total), push the
\* result, break on a failure unless continueOnError.
iteration(b, ok) ==
    LET file == b.files[b.i + 1]
        b1   == [b EXCEPT !.invoked = Append(@, file),
                          !.results = Append(@, [input |-> file, success |-> ok])]
    IN IF ok \/ b1.continueOnError
         THEN [b1 EXCEPT !.i = @ + 1]
         ELSE [b1 EXCEPT !.pc = "break"]

BatchStep(b) ==
    /\ platform = "batch"
    /\ batch' = b
    /\ UNCHANGED <<platform, resourceCache, nextRes, cs, web, nat, hook,
                   pixel, preloader>>

\* The processor settles for the current file.
BatchIteration(ok) ==
    /\ platform = "batch"
    /\ batch.pc = "loop"
    /\ batch.i < Len(batch.files)
    /\ BatchStep(iteration(batch, ok))

\* The loop is left (i = files.length, or break): summary, return results.
BatchReturn ==
    /\ platform = "batch"
    /\ \/ batch.pc = "break"
       \/ batch.pc = "loop" /\ batch.i = Len(batch.files)
    /\ BatchStep([batch EXCEPT !.pc = "returned"])

NextBatch ==
    \/ \E ok \in BOOLEAN : BatchIteration(ok)
    \/ BatchReturn

NextCache ==
    \/ \E s \in Sessions, c \in Contexts, o \in GLOutcomes : CacheGet(s, c, o)
    \/ \E s \in Sessions : CacheSetup(s)
    \/ \E c \in Contexts : CacheClear(c)

\* The state after construction; W is the set of prop combinations of the
\* web component.
InitWith(W) ==
    /\ platform \in {"cache", "web", "hook", "native"}
    /\ resourceCache = [c \in Contexts |-> NoRes]
    /\ nextRes = 0
    /\ cs = CsInit
    /\ web \in IF platform = "web" THEN W ELSE {0}
    /\ hook \in IF platform = "hook"
                 THEN {HookInit(ap, s) : ap \in BOOLEAN, s \in Srcs}
                 ELSE {0}
    /\ nat = IF platform = "native" THEN NatInit ELSE 0
    /\ pixel = 0
    /\ preloader = 0
    /\ batch = 0

\* The component renders its own <video>, loop = {false}.
Init ==
    InitWith({WebInit(vfc, ap, "/a.mp4", FALSE, FALSE, FALSE) :
                 vfc \in BOOLEAN, ap \in BOOLEAN})

\* loop = {true} with the component's own <video>, and a supplied
\* videoElement whose loop attribute differs from the loop prop.
InitLoop ==
    InitWith({WebInit(vfc, TRUE, "/a.mp4", TRUE, FALSE, TRUE) : vfc \in BOOLEAN}
             \cup {WebInit(TRUE, TRUE, "/a.mp4", lp, TRUE, ~lp) : lp \in BOOLEAN})

Next ==
    \/ NextCache
    \/ NextWeb
    \/ NextHook
    \/ NextNative

Spec == Init /\ [][Next]_vars

\* The native view alone.
InitNative == InitWith({}) /\ platform = "native"

SpecNative == InitNative /\ [][NextNative]_vars

SpecLoop == InitLoop /\ [][Next]_vars

\* The two pixel pipelines alone, on every frame and surface height.
InitShader ==
    /\ platform = "shader"
    /\ resourceCache = [c \in Contexts |-> NoRes]
    /\ nextRes = 0
    /\ cs = CsInit
    /\ web = 0
    /\ hook = 0
    /\ nat = 0
    /\ pixel \in {PixelInit(f, h) : f \in Frames, h \in 1..MaxRows}
    /\ preloader = 0
    /\ batch = 0

SpecShader == InitShader /\ [][NextShader]_vars

\* runBatch alone, on every file count and both settings of the option.
InitBatch ==
    /\ platform = "batch"
    /\ resourceCache = [c \in Contexts |-> NoRes]
    /\ nextRes = 0
    /\ cs = CsInit
    /\ web = 0
    /\ hook = 0
    /\ nat = 0
    /\ pixel = 0
    /\ preloader = 0
    /\ batch \in {BatchInit(n, cont) : n \in 0..MaxFiles, cont \in BOOLEAN}

SpecBatch == InitBatch /\ [][NextBatch]_vars

\* The preloader alone.
InitPreloader ==
    /\ platform = "preloader"
    /\ resourceCache = [c \in Contexts |-> NoRes]
    /\ nextRes = 0
    /\ cs = CsInit
    /\ web = 0
    /\ hook = 0
    /\ nat = 0
    /\ pixel = 0
    /\ preloader \in {PreloaderInit(l, auto) : l \in PreloadLists, auto \in BOOLEAN}
    /\ batch = 0

SpecPreloader == InitPreloader /\ [][NextPreloader]_vars

\* Explicit display sizes: the width and height props given (3) or not.
InitSize ==
    InitWith({WithSize(WebInit(vfc, TRUE, "/a.mp4", FALSE, FALSE, FALSE), wd, ht) :
                 vfc \in BOOLEAN, wd \in {0, 3}, ht \in {0, 3}})

SpecSize == InitSize /\ [][Next]_vars

(***************************************************************************)
(* Visibility suspension.                                                  *)
(***************************************************************************)
BecomesHidden == web.obsLast # "hidden" /\ web'.obsLast = "hidden"

BecomesVisible == web.obsLast = "hidden" /\ web'.obsLast = "visible"

\* C1: when a playing session becomes invisible, the video is paused and
\* no video-frame callback or animation frame is pending once the
\* visibility handler has returned; when a session that was playing when
\* it was hidden becomes visible again, play() is called by the component
\* (and accepted unless the browser rejects it).
C1_VisibilitySuspension ==
    [][platform = "web" =>
         /\ (BecomesHidden /\ ~web.paused)
               => (web'.paused /\ web'.vfcN = 0 /\ web'.rafN = 0)
         /\ (BecomesVisible /\ web.wasPlayingBeforeHidden /\ web.paused)
               => (~web'.paused \/ "playRejected" \in web'.ops)]_vars

(***************************************************************************)
(* Context loss and restoration.                                           *)
(***************************************************************************)
LoopPending(w) == w.vfcN > 0 \/ w.rafN > 0

\* C2: when webglcontextrestored is handled after a loss, the program the
\* session obtains belongs to the restored context's generation of GL
\* objects (not the entry cached before the loss), and if the video is
\* playing with data available a render callback is pending again.
C2_ContextRecovery ==
    [][(platform = "web" /\ web.contextLost /\ ~web'.contextLost) =>
         /\ "useProgram" \in web'.ops => web'.programGen = web'.gen
         /\ (~web'.paused /\ web'.readyState >= HAVE_CURRENT_DATA)
               => LoopPending(web')]_vars

\* The calls a handler makes on the GL context.
GLCalls == {"compileShader", "linkProgram", "useProgram", "bindBuffer",
            "bufferData", "vertexAttribPointer", "createTexture",
            "bindTexture", "texParameteri", "enable", "blendFunc",
            "clearColor", "viewport", "clear", "texImage2D",
            "texSubImage2D", "drawArrays"}

\* C3: while the context is marked lost no handler makes a GL call and no
\* render callback is pending.
C3_NoGpuCallWhileLost ==
    (platform = "web" /\ web.contextLost) =>
        (web.ops \cap GLCalls = {} /\ ~LoopPending(web))

(***************************************************************************)
(* The resource cache.                                                     *)
(***************************************************************************)
\* Context c has seen neither a failed creation nor a clearCache.
Undisturbed(c) == ~cs.failed[c] /\ cs.era[c] = 0

\* C4: on a context whose creations all succeed (and which is never
\* cleared) the shaders are compiled at most once, every call of
\* getOrCreateResources returns the one cached entry, and what a call
\* returns for one context is never the entry of another.
C4_CompileOncePerContext ==
    platform = "cache" =>
      /\ \A c \in Contexts : Undisturbed(c) =>
            /\ cs.compiles[c] <= 1
            /\ (cs.last[1] = "get" /\ cs.last[2] = c) =>
                  (cs.compiles[c] = 1 /\ cs.last[3] # 0
                     /\ cs.last[3] = resourceCache[c].program)
            /\ \A s \in Sessions : cs.heldCtx[s] = c =>
                  cs.held[s] = resourceCache[c]
      /\ \A s1, s2 \in Sessions :
            (cs.held[s1] # NoRes /\ cs.held[s2] # NoRes
               /\ cs.heldCtx[s1] # cs.heldCtx[s2])
              => cs.held[s1].program # cs.held[s2].program

\* Two sessions share the entry of a context that was compiled once.
C4_Witness ==
    /\ platform = "cache"
    /\ Undisturbed("c1")
    /\ cs.compiles["c1"] = 1
    /\ \A s \in Sessions : cs.heldCtx[s] = "c1"
    /\ cs.last[1] = "get"

\* C5: when getOrCreateResources fails for the session's context (the
\* session falls back to compiling itself: "compileShader" is its first
\* call), the cache holds no entry for the context afterwards, the session
\* calls onError, and it neither sets up a texture nor draws.
C5_CreationFailureReported ==
    [][(platform = "web" /\ "compileShader" \in web'.ops) =>
         /\ resourceCache'["c1"] = NoRes
         /\ "onError" \in web'.ops
         /\ web'.ops \cap {"createTexture", "drawArrays"} = {}]_vars

\* C6 as stated: whatever was called, all sessions attached to a context
\* hold the same entry.
C6_OneEntryEver ==
    platform = "cache" =>
      \A s1, s2 \in Sessions :
        (cs.held[s1] # NoRes /\ cs.heldCtx[s1] = cs.heldCtx[s2])
          => cs.held[s1] = cs.held[s2]

\* C6, amended: between two clearCache calls for a context at most one
\* entry exists for it: every session that obtained its resources since
\* the context's last clearCache holds the cache's current entry, and an
\* entry's fields are the ones it was created with (neither
\* getOrCreateResources nor setupVertexAttributes changes them).
C6_OneEntryBetweenClears ==
    platform = "cache" =>
      /\ \A s \in Sessions :
            (cs.held[s] # NoRes /\ cs.heldEra[s] = cs.era[cs.heldCtx[s]])
              => cs.held[s] = resourceCache[cs.heldCtx[s]]
      /\ \A c \in Contexts :
            resourceCache[c] # NoRes
              => resourceCache[c] = NewRes(resourceCache[c].program, 0)
      /\ \A s \in Sessions :
            cs.held[s] # NoRes => cs.held[s] = NewRes(cs.held[s].program, 0)

\* After a clearCache, two sessions share the new entry of the context and
\* one of them has just run setupVertexAttributes on it.
C6_Witness ==
    /\ platform = "cache"
    /\ cs.era["c1"] = 1
    /\ \A s \in Sessions : cs.heldCtx[s] = "c1" /\ cs.heldEra[s] = 1
    /\ cs.last[1] = "setup"

(***************************************************************************)
(* Texture upload.                                                         *)
(***************************************************************************)
\* The upload law between the session before an upload (v) and after (v2).
UploadLaw(v, v2) ==
    Uploads(v2) =>
      LET full == ~v.uploaded \/ v.lastUpload # v2.size
      IN /\ ("texImage2D" \in v2.ops) <=> full
         /\ ("texSubImage2D" \in v2.ops) <=> ~full
         /\ v2.lastTextureSize = v2.size
         /\ v2.textureInitialized

\* C7: an upload is a full allocation (texImage2D) exactly when the session
\* has not uploaded before or the frame's size differs from the size of
\* the last upload, and an in-place update (texSubImage2D) otherwise; after
\* it the recorded size is the frame's size. Both for the component's
\* renderFrame and for the hook's render.
C7_UploadPath ==
    [][/\ platform = "web" => UploadLaw(web, web')
       /\ platform = "hook" => UploadLaw(hook, hook')]_vars

\* A frame has just been uploaded in place: the session had uploaded a
\* frame of the same size before.
C7_Witness ==
    /\ platform = "web"
    /\ "texSubImage2D" \in web.ops
    /\ web.lastUpload = web.size

(***************************************************************************)
(* Source assignment.                                                      *)
(***************************************************************************)
\* C8: assigning the source the value it already has changes nothing: the
\* web src effect does not assign video.src (which would restart loading)
\* when the element's src already is the prop's value, and leaves the
\* upload state alone; a native step that leaves sourceUri as it was
\* neither tears the player down nor sets it up, and changes lastTexture
\* and the failure counter only by drawing.
C8_SameSourceNoOp ==
    [][/\ platform = "web" =>
            /\ "sameSrc" \notin web'.ops
            /\ "srcAssign" \in web'.ops =>
                  /\ web'.textureInitialized = web.textureInitialized
                  /\ web'.lastTextureSize = web.lastTextureSize
       /\ (platform = "native" /\ nat'.sourceUri = nat.sourceUri) =>
            /\ nat'.ops \cap {"cleanupPlayer", "setupVideo"} = {}
            /\ nat'.player = nat.player
            /\ nat'.lastTexture \in {nat.lastTexture, nat'.frames}
            /\ nat'.frames = nat.frames =>
                  /\ nat'.lastTexture = nat.lastTexture
                  /\ nat'.consecutiveTextureFailures
                        \in {nat.consecutiveTextureFailures,
                             nat.consecutiveTextureFailures + 1}]_vars

\* The first upload of a source other than the one last uploaded from.
FirstUploadOfSource(v, v2) ==
    Uploads(v2) /\ v.uploaded /\ v.lastUploadSrc # v2.vsrc

\* C9 as stated: after the source changed to another value the first
\* upload is a full allocation whatever the frame size (web), and the
\* cached texture is gone (native; the new value being a locator, not the
\* empty string).
C9_SourceChangeResetsUpload ==
    [][/\ (platform = "web" /\ FirstUploadOfSource(web, web'))
            => "texImage2D" \in web'.ops
       /\ (platform = "native" /\ nat'.sourceUri # nat.sourceUri
              /\ nat'.sourceUri # "")
            => nat'.lastTexture = 0]_vars

\* C9, amended: on the web a source change leaves textureInitialized and
\* lastTextureSize as they are, so the first upload from the new source is
\* a full allocation exactly when its frame size differs from the last
\* upload's; on native a change to a non-empty locator clears lastTexture
\* and the failure counter.
C9_SourceChangeKeepsWebUploadState ==
    [][/\ (platform = "web" /\ web'.src # web.src) =>
            /\ web'.textureInitialized = web.textureInitialized
            /\ web'.lastTextureSize = web.lastTextureSize
       /\ (platform = "web" /\ FirstUploadOfSource(web, web')) =>
            (("texImage2D" \in web'.ops) <=> (web.lastUpload # web'.size))
       /\ (platform = "native" /\ nat'.sourceUri # nat.sourceUri
              /\ nat'.sourceUri # "")
            => (nat'.lastTexture = 0 /\ nat'.consecutiveTextureFailures = 0)]_vars

\* The first frame of a new source has just been uploaded in place: it has
\* the size of the last frame uploaded from the previous source.
C9_Witness ==
    /\ platform = "web"
    /\ "texSubImage2D" \in web.ops
    /\ "firstOfSrc" \in web.ops
    /\ web.lastUpload = web.size

(***************************************************************************)
(* Ticks without a new frame.                                              *)
(***************************************************************************)
\* C10: a web step taken while the video has no current data neither
\* clears the canvas nor uploads nor draws, and leaves the upload state as
\* it is; a native draw replaces lastTexture only by a texture that
\* createTexture has just made (a failed creation or a tick without a new
\* pixel buffer keeps it), and whatever it draws, it draws lastTexture.
C10_KeepsPreviousTexture ==
    [][/\ (platform = "web" /\ web'.readyState < HAVE_CURRENT_DATA) =>
            /\ web'.ops \cap {"clear", "texImage2D", "texSubImage2D",
                               "drawArrays"} = {}
            /\ web'.textureInitialized = web.textureInitialized
            /\ web'.lastTextureSize = web.lastTextureSize
       /\ (platform = "native" /\ "cleanupPlayer" \notin nat'.ops) =>
            /\ nat'.lastTexture # nat.lastTexture =>
                  /\ nat'.frames = nat.frames + 1
                  /\ nat'.lastTexture = nat'.frames
                  /\ nat'.consecutiveTextureFailures = 0
            /\ nat'.frames = nat.frames => nat'.lastTexture = nat.lastTexture
            /\ "drawPrimitives" \in nat'.ops =>
                  (nat'.drew = nat'.lastTexture /\ nat'.drew # 0)]_vars

\* A native tick whose texture creation failed has drawn the texture of an
\* earlier frame.
C10_Witness ==
    /\ platform = "native"
    /\ nat.consecutiveTextureFailures > 0
    /\ nat.lastTexture # 0
    /\ "drawPrimitives" \in nat.ops
    /\ nat.drew = nat.lastTexture

(***************************************************************************)
(* End of media.                                                           *)
(***************************************************************************)
\* C11: a session with loop = true never calls the end callback (onEnded on
\* the web, with its own <video> or with a supplied one; onEnd on native),
\* and at every natural end of the media playback goes on from position 0:
\* the decoder does not end, it seeks to the start and plays.
C11_LoopNeverEnds ==
    [][/\ (platform = "web" /\ web.loop)
            => /\ "onEnded" \notin web'.ops
               /\ "mediaEnd" \in web'.ops
                     => ("seekToStart" \in web'.ops /\ ~web'.ended /\ ~web'.paused)
       /\ (platform = "native" /\ nat.shouldLoop)
            => /\ "onEnd" \notin nat'.ops
               /\ "playedToEnd" \in nat'.ops
                     => ({"seek", "play"} \subseteq nat'.ops /\ nat'.rate # 0)]_vars

\* The task queued at the end of the media is dispatched to the listeners.
EndTaskDispatched ==
    /\ web.evq # <<>>
    /\ Head(web.evq) = "endtask"
    /\ web'.evq = Tail(web.evq)
    /\ web'.src = web.src
    /\ web.videoListeners

\* C12: a session with loop = false calls the end callback exactly once
\* when the media reaches its natural end (in the step that handles the end
\* and in no other), and playback does not resume by itself afterwards: the
\* component holds no render callback after the end was handled, and a
\* decoder that has ended and is paused stays paused.
C12_EndsOnce ==
    [][/\ (platform = "web" /\ ~web.loop)
            => /\ ("onEnded" \in web'.ops) <=> EndTaskDispatched
               /\ EndTaskDispatched
                     => (web'.paused /\ web'.vfcRef = "null" /\ web'.rafRef = "null")
               /\ (web.ended /\ web.paused) => web'.paused
       /\ (platform = "native" /\ ~nat.shouldLoop /\ "playedToEnd" \in nat'.ops)
            => ("onEnd" \in nat'.ops /\ nat'.rate = 0)]_vars

(***************************************************************************)
(* Loading timeout.                                                        *)
(***************************************************************************)
\* C13: while the status of the item of a native session has been
\* "unknown" ever since the source was set, the session has reported no
\* loading timeout before 30 seconds have passed since loading began, and
\* exactly one once more than 30 seconds have passed.
C13_LoadingTimeout ==
    (platform = "native" /\ nat.callbacks /\ nat.player /\ nat.status = "unknown")
       => /\ nat.clock < StatusTimeout => nat.timeouts = 0
          /\ nat.clock > StatusTimeout => nat.timeouts = 1

(***************************************************************************)
(* Repeated texture failures.                                              *)
(***************************************************************************)
\* C14: createTexture reports an error exactly in the call that makes the
\* run of consecutive failures 120 long: no call of a shorter run reports,
\* no call beyond the 120th reports again, so a run that reaches 120 has
\* exactly one report; a successful creation and a teardown of the player
\* set the counter to 0.
C14_FailureRunReported ==
    [][platform = "native" =>
         /\ ("repeatedFailure" \in nat'.ops)
               <=> /\ nat.consecutiveTextureFailures = TextureFailureLimit - 1
                   /\ nat'.consecutiveTextureFailures = TextureFailureLimit
         /\ "repeatedFailure" \in nat'.ops => "onError" \in nat'.ops
         /\ nat'.frames # nat.frames => nat'.consecutiveTextureFailures = 0
         /\ "cleanupPlayer" \in nat'.ops => nat'.consecutiveTextureFailures = 0
         /\ nat'.consecutiveTextureFailures
               \in {0, nat.consecutiveTextureFailures,
                    nat.consecutiveTextureFailures + 1}]_vars

\* The 120th failure in a row has just been reported.
C14_Witness ==
    /\ platform = "native"
    /\ nat.consecutiveTextureFailures = TextureFailureLimit
    /\ {"repeatedFailure", "onError"} \subseteq nat.ops

(***************************************************************************)
(* Unmount.                                                                *)
(***************************************************************************)
\* C15: once a session is unmounted no render callback of it is scheduled
\* any more (no video-frame callback, no animation frame, no display link),
\* so none fires and nothing is drawn for it.
C15_NothingScheduledAfterUnmount ==
    /\ (platform = "web" /\ web.phase = "unmounted")
          => (~LoopPending(web) /\ "drawArrays" \notin web.ops)
    /\ (platform = "native" /\ nat.released)
          => (~nat.displayLink /\ "drawPrimitives" \notin nat.ops)

(***************************************************************************)
(* Stopped render loops.                                                   *)
(***************************************************************************)
\* The pause event is dispatched to the pause listener.
PauseDispatched ==
    /\ web.evq # <<>>
    /\ Head(web.evq) = "pause"
    /\ web'.evq = Tail(web.evq)
    /\ web'.src = web.src
    /\ web.videoListeners

\* webglcontextlost is handled.
ContextLossHandled == ~web.contextLost /\ web'.contextLost

Pending(w) == w.vfcN + w.rafN

\* The tick's callback finds no decoder to look at, or a paused or ended one.
TickStops(w) ==
    (w.phase = "unmounted" /\ ~w.external) \/ w.paused \/ w.ended

\* renderFrame has what it needs to draw the current frame.
Renderable(w) ==
    /\ w.gl # NoCtx /\ w.texture # 0
    /\ ~w.contextLost /\ w.isVisible
    /\ w.readyState >= HAVE_CURRENT_DATA

\* The play event is dispatched to the play listener.
PlayDispatched ==
    /\ web.evq # <<>>
    /\ Head(web.evq) = "play"
    /\ web'.evq = Tail(web.evq)
    /\ web'.src = web.src
    /\ web.videoListeners

\* C17 as stated: a tick that finds the decoder neither paused nor ended
\* renders a frame.
C17_PlayingTickRenders ==
    [][(platform = "web" /\ "tick" \in web'.ops /\ ~TickStops(web))
          => "drawArrays" \in web'.ops]_vars

\* C17, amended: on every tick of either path, if the decoder is paused or
\* ended the tick does nothing and schedules nothing; otherwise it calls
\* renderFrame once, which draws one frame if the context is there and not
\* lost, the canvas is visible and the decoder has current data and draws
\* nothing otherwise, and then schedules exactly one next tick, which the
\* handle names. A session with no callback pending gets one only when a
\* play event or a context restoration is handled.
C17_TickLaw ==
    [][platform = "web" =>
         /\ ("tick" \in web'.ops /\ TickStops(web))
               => (web'.ops = {"tick"} /\ Pending(web') = Pending(web) - 1)
         /\ ("tick" \in web'.ops /\ ~TickStops(web))
               => /\ Pending(web') = Pending(web)
                  /\ IF web.hasVFC THEN web'.vfcRef = "live"
                                   ELSE web'.rafRef = "live"
                  /\ ("drawArrays" \in web'.ops) <=> Renderable(web)
         /\ (~LoopPending(web) /\ LoopPending(web'))
               => (PlayDispatched \/ (web.contextLost /\ ~web'.contextLost))]_vars

\* A tick of a playing session has just fired, drawn nothing (the decoder
\* has no current data) and scheduled the next tick.
C17_Witness ==
    /\ platform = "web"
    /\ web.ops = {"tick"}
    /\ ~web.paused /\ ~web.ended /\ ~web.contextLost /\ web.isVisible
    /\ web.readyState < HAVE_CURRENT_DATA
    /\ LoopPending(web)

(***************************************************************************)
(* No GPU facility.                                                        *)
(***************************************************************************)
\* C18: if no GPU facility can be obtained (web: getContext yields no
\* context; native: setupMetal fails) the failure is delivered to the
\* application's onError callback, and no draw or other GPU operation is
\* attempted for the session afterwards, whatever fires later.
C18_NoGpuFacility ==
    [][/\ (platform = "web" /\ web.phase = "new" /\ web'.phase = "mounted"
              /\ web'.gl = NoCtx)
            => "onError" \in web'.ops
       /\ (platform = "web" /\ web.gl = NoCtx /\ web'.gl = NoCtx)
            => web'.ops \cap GLCalls = {}
       /\ (platform = "native" /\ ~nat.created /\ nat'.created /\ ~nat'.metal)
            => "onError" \in nat'.ops
       /\ (platform = "native" /\ nat.created /\ ~nat.metal)
            => nat'.ops \cap {"drawPrimitives", "trap"} = {}]_vars

(***************************************************************************)
(* Playback errors.                                                        *)
(***************************************************************************)
\* The error event is dispatched to the error listener.
ErrorDispatched ==
    /\ web.evq # <<>>
    /\ Head(web.evq) = "error"
    /\ web'.evq = Tail(web.evq)
    /\ web'.src = web.src
    /\ web.videoListeners

Plays(q) == Cardinality({i \in 1..Len(q) : q[i] = "play"})

\* The loadeddata event is dispatched to its listener.
LoadedDispatched ==
    /\ web.evq # <<>>
    /\ Head(web.evq) = "loadeddata"
    /\ web'.evq = Tail(web.evq)
    /\ web'.src = web.src
    /\ web.videoListeners

\* C20: a play() request that the browser rejects, at load time or when
\* the session becomes visible again, produces no onError call and is not
\* retried: the request is made only by the loadeddata handler and by the
\* visibility handler, the step that holds the rejection leaves the decoder
\* paused with no play event queued and no render callback added, and while
\* the decoder stays paused no callback is added and no tick draws until a
\* play event is handled.
C20_RejectedPlayIsSilent ==
    [][platform = "web" =>
         /\ "playRejected" \in web'.ops =>
               /\ "onError" \notin web'.ops
               /\ web'.paused
               /\ Plays(web'.evq) <= Plays(web.evq)
               /\ Pending(web') <= Pending(web)
               /\ LoadedDispatched \/ web'.obsLast # web.obsLast
         /\ (web.paused /\ web'.paused /\ ~PlayDispatched) =>
               /\ Pending(web') <= Pending(web)
               /\ "tick" \in web'.ops => web'.ops = {"tick"}]_vars

\* The autoplay of a freshly loaded video has just been rejected.
C20_Witness ==
    /\ platform = "web"
    /\ web.paused /\ web.autoPlay
    /\ {"playRejected", "onCanPlay"} \subseteq web.ops
    /\ ~LoopPending(web)

(***************************************************************************)
(* The ready callback.                                                     *)
(***************************************************************************)
\* C21: whenever onCanPlay fires for loaded media the session has set the
\* surface to the media's output size and drawn one frame of it, and play()
\* is requested in that step only if autoPlay is set and the decoder was
\* paused.
C21_ReadyAfterFirstFrame ==
    [][(platform = "web" /\ "onCanPlay" \in web'.ops) =>
         /\ web'.canvas = <<outputWidth(web'), outputHeight2(web') \div 2>>
         /\ "drawArrays" \in web'.ops
         /\ (Plays(web'.evq) > Plays(Tail(web.evq)) \/ "playRejected" \in web'.ops)
               => (web.autoPlay /\ web.paused)]_vars

(***************************************************************************)
(* The surface size on the ready event.                                    *)
(***************************************************************************)
\* C22: the ready event leaves the surface at (explicit width, else decoded
\* width) by (explicit height, else half the decoded height), and a surface
\* that already has that size is not resized; in the component and in the
\* hook.
C22_SurfaceSize ==
    [][/\ (platform = "web" /\ "onCanPlay" \in web'.ops) =>
             /\ web'.canvas = <<outputWidth(web'), outputHeight2(web') \div 2>>
             /\ web.canvas = web'.canvas => "resize" \notin web'.ops
       /\ (platform = "hook" /\ "setIsReady" \in hook'.ops) =>
             /\ hook'.canvas = OutputSize(hook'.size)
             /\ hook.canvas = hook'.canvas => "resize" \notin hook'.ops]_vars

(***************************************************************************)
(* The composited pixel.                                                   *)
(***************************************************************************)
\* C23: for a frame whose top half is (r, g, b) and whose bottom half is the
\* gray a, the pixel each platform's shader and blend stage leave on the
\* cleared transparent surface is the premultiplied (r*a/255, g*a/255,
\* b*a/255, a).
C23_PremultipliedPixel ==
    platform = "shader" =>
        LET f == pixel.frame
            premultiplied == <<Quantize(f.r * f.a, 255), Quantize(f.g * f.a, 255),
                               Quantize(f.b * f.a, 255), f.a>>
        IN /\ pixel.glPixel # NoPixel => pixel.glPixel = premultiplied
           /\ pixel.metalPixel # NoPixel => pixel.metalPixel = premultiplied

\* C24: the GLSL and the Metal fragment shader sample the colour at
\* (x, y*0.5) and the alpha at (x, 0.5 + y*0.5) and return the same
\* (rgb, alpha) for the same fragment of the same frame.
C24_ShadersAgree ==
    (platform = "shader" /\ pixel.glFrag # NoPixel /\ pixel.metalFrag # NoPixel)
        => pixel.glFrag = pixel.metalFrag

(***************************************************************************)
(* The preloader's registry.                                               *)
(***************************************************************************)
\* C25: over any sequence of preload(url) and preloadAll calls at most one
\* element exists per url, and a call for a url that is already in the
\* registry creates no element for it and leaves its entry and status alone.
C25_OneElementPerUrl ==
    [][(platform = "preloader" /\ "preload" \in preloader'.ops) =>
         LET ElementsOf(p, url) ==
                 {e \in 1..Len(p.elems) :
                     p.elems[e].attached /\ p.elems[e].src = url}
         IN \A u \in Srcs :
            /\ Cardinality(ElementsOf(preloader', u)) <= 1
            /\ preloader.videoElementsRef[u] # NoElement =>
                  /\ ElementsOf(preloader', u) = ElementsOf(preloader, u)
                  /\ preloader'.videoElementsRef[u] = preloader.videoElementsRef[u]
                  /\ preloader'.videos[u] = preloader.videos[u]]_vars

\* A call for a url that is in the registry, next to one that is not.
C25_Witness ==
    /\ platform = "preloader"
    /\ "preload" \in preloader.ops
    /\ "createElement" \in preloader.ops
    /\ Len(preloader.elems) = 2
    /\ preloader.videos["/a.mp4"].status = "ready"
    /\ preloader.videos["http://h/b.mp4"].status = "loading"

\* C26: when the consumer unmounts, every element the preloader created is
\* paused, has no source, is out of the document, and the registry is empty.
C26_UnmountReleasesElements ==
    [][(platform = "preloader" /\ preloader.phase = "mounted"
          /\ preloader'.phase = "unmounted") =>
         /\ \A e \in 1..Len(preloader'.elems) :
               /\ preloader'.elems[e].paused
               /\ preloader'.elems[e].src = ""
               /\ ~preloader'.elems[e].attached
         /\ \A u \in Srcs : preloader'.videoElementsRef[u] = NoElement]_vars

(***************************************************************************)
(* Start of playback on the native view.                                   *)
(***************************************************************************)
\* C27: the native view does not start a newly set source before its player
\* item is readyToPlay: while the item's status is unknown play() has not
\* been called on the player (its requested rate is 0).
C27_PlayWaitsForReady ==
    (platform = "native" /\ nat.player /\ nat.status = "unknown") => nat.rate = 0

(***************************************************************************)
(* Batch processing.                                                       *)
(***************************************************************************)
\* C28: runBatch calls the processor for the files one after another in
\* list order and keeps one result per call; without continueOnError it
\* returns at the first failure, which is the last result, with no later
\* file processed; with continueOnError it returns one result per file.
C28_BatchOrderAndStop ==
    platform = "batch" =>
        LET n == Len(batch.results)
        IN /\ n <= Len(batch.files)
           /\ batch.invoked = SubSeq(batch.files, 1, n)
           /\ \A k \in 1..n : batch.results[k].input = batch.files[k]
           /\ ~batch.continueOnError =>
                 \A k \in 1..(n - 1) : batch.results[k].success
           /\ (batch.pc = "returned" /\ ~batch.continueOnError) =>
                 (n = Len(batch.files) \/ ~batch.results[n].success)
           /\ (batch.pc = "returned" /\ batch.continueOnError) =>
                 n = Len(batch.files)

\* A call without continueOnError has returned after the second of four
\* files failed.
C28_Witness ==
    /\ platform = "batch"
    /\ batch.pc = "returned"
    /\ ~batch.continueOnError
    /\ Len(batch.files) = 4
    /\ Len(batch.results) = 2
    /\ batch.results[1].success
    /\ ~batch.results[2].success
    /\ batch.invoked = <<1, 2>>

(***************************************************************************)
(* Resuming on visibility.                                                 *)
(***************************************************************************)
\* The observer reports the canvas visible.
ReportedVisible ==
    platform = "web" /\ web.obsLast # "visible" /\ web'.obsLast = "visible"

\* C29: when the canvas is reported visible, play() is requested only if the
\* video was playing when it was last reported hidden; a video that was
\* paused then is still paused after the report.
C29_ResumeOnlyIfWasPlaying ==
    [][ReportedVisible =>
         /\ (Plays(web'.evq) > Plays(web.evq) \/ "playRejected" \in web'.ops)
               => web.hiddenAs = "playing"
         /\ (web.hiddenAs = "paused" /\ web.paused) => web'.paused]_vars

\* A loaded video that was paused when its canvas was hidden, after the
\* canvas was reported visible again.
C29_Witness ==
    /\ platform = "web"
    /\ web.obsLast = "visible"
    /\ web.hiddenAs = "paused"
    /\ web.readyState = HAVE_CURRENT_DATA
    /\ web.paused
    /\ web.ops = {}
    /\ web.videoListeners

(***************************************************************************)
(* Re-applying configuration.                                              *)
(***************************************************************************)
\* C30: when the mount effect runs again (cleanup, then setup) while the
\* video is playing and being rendered, a render callback is pending again
\* afterwards, with no new play event needed.
C30_RerunKeepsRendering ==
    [][(/\ platform = "web"
        /\ "effectRerun" \in web'.ops
        /\ ~web.paused /\ ~web.ended
        /\ web.readyState >= HAVE_CURRENT_DATA
        /\ web.isVisible /\ ~web.contextLost
        /\ LoopPending(web))
          => LoopPending(web')]_vars

(***************************************************************************)
(* Ownership of the frame texture.                                         *)
(***************************************************************************)
\* C31: a web session holds at most one live texture and none after
\* unmount: when initWebGL creates a texture while the texture the session
\* holds is alive (same context generation, context not lost), the old one
\* is deleted in that step, and so is the held texture when the session
\* unmounts.
C31_OneLiveTexture ==
    [][platform = "web" =>
         LET live == /\ web.texture # 0
                     /\ web.texture = web.gen + 1
                     /\ ~web.contextLost
         IN /\ ("createTexture" \in web'.ops /\ live /\ web'.gen = web.gen)
                  => "deleteTexture" \in web'.ops
            /\ (web.phase = "mounted" /\ web'.phase = "unmounted" /\ live)
                  => "deleteTexture" \in web'.ops]_vars

(***************************************************************************)
(* One render callback at a time.                                          *)
(***************************************************************************)
\* C32: at most one render callback (video-frame callback or animation
\* frame) is pending per session, and the stored handle names it; in the
\* component and in the hook.
C32_OnePendingCallback ==
    /\ platform = "web" =>
          /\ web.vfcN + web.rafN <= 1
          /\ web.vfcN = 1 => web.vfcRef = "live"
          /\ web.rafN = 1 => web.rafRef = "live"
    /\ platform = "hook" =>
          /\ hook.rafN <= 1
          /\ hook.rafN = 1 => hook.rafRef = "live"

(***************************************************************************)
(* In-place updates need an allocated texture.                             *)
(***************************************************************************)
\* C33: whenever renderFrame updates the texture in place (texSubImage2D),
\* the texture the session holds has been allocated in full (texImage2D)
\* with the frame's dimensions; so the first upload after initWebGL created
\* a new texture is a full allocation.
C33_InPlaceOnlyIfAllocated ==
    [][(platform = "web" /\ "texSubImage2D" \in web'.ops)
          => web.texStorage = web'.size]_vars

(***************************************************************************)
(* Invisible sessions are idle.                                            *)
(***************************************************************************)
\* C34: in every reachable state in which a mounted session is invisible,
\* the video is not playing and no render callback is pending, also after
\* the loadeddata handler (autoPlay) or a play event ran while invisible.
C34_InvisibleIsIdle ==
    (platform = "web" /\ web.phase = "mounted" /\ ~web.isVisible)
        => /\ web.paused
           /\ web.vfcN = 0
           /\ web.rafN = 0

(***************************************************************************)
(* Repeated hidden notifications.                                          *)
(***************************************************************************)
\* C35: handling a hidden notification twice in a row (the second one being
\* the first report of a newly created observer, no visible notification in
\* between) remembers the same prior-playing state as handling it once, so
\* a session that was playing when first hidden still resumes when shown.
C35_SecondHiddenKeepsMemory ==
    (platform = "web" /\ web.phase = "mounted") =>
        LET once  == handleVisibilityChange(web, FALSE, TRUE)
            twice == handleVisibilityChange(once, FALSE, TRUE)
            shown == handleVisibilityChange(twice, TRUE, TRUE)
        IN /\ twice.wasPlayingBeforeHidden = once.wasPlayingBeforeHidden
           /\ ~web.paused => ~shown.paused

(***************************************************************************)
(* A session on a preloaded element.                                       *)
(***************************************************************************)
\* HTMLMediaElement.HAVE_ENOUGH_DATA, the readyState at canplaythrough.
HAVE_ENOUGH_DATA == 4

\* The videoElement prop holds an element useVideoPreloader reports 'ready':
\* its canplaythrough has fired, its loadeddata was dispatched before the
\* component existed, its src attribute is the url it was preloaded from.
InitReady ==
    /\ InitWith({[WebInit(vfc, ap, s, FALSE, TRUE, FALSE)
                    EXCEPT !.readyState = HAVE_ENOUGH_DATA, !.size = sz] :
                 vfc \in BOOLEAN, ap \in BOOLEAN, s \in Srcs, sz \in Sizes})
    /\ platform = "web"

\* The steps of a session nothing disturbs: it is mounted, its element's
\* events are dispatched and its frame callbacks fire.
NextReady ==
    \/ \E ok \in BOOLEAN, o \in GLOutcomes : Mount(ok, o)
    \/ \E sz \in Sizes : MediaLoaded(sz)
    \/ NaturalEnd
    \/ \E ok \in BOOLEAN : Dispatch(ok)
    \/ \E t \in BOOLEAN : VfcTick(t)
    \/ \E t \in BOOLEAN : RafTick(t)

\* The event loop runs every task that is ready to run.
SpecReady == InitReady /\ [][NextReady]_vars /\ WF_vars(NextReady)

\* C36: a session given an element that has already loaded its data comes
\* to configure its canvas, draw a first frame and call onCanPlay, unless
\* it could get no context.
C36_PreloadedBecomesReady ==
    (platform = "web" /\ web.phase = "new")
        ~> /\ platform = "web"
           /\ \/ {"viewport", "drawArrays", "onCanPlay"} \subseteq web.ops
              \/ web.phase = "mounted" /\ ~web.videoListeners

(***************************************************************************)
(* What getVideo hands out.                                                *)
(***************************************************************************)
\* C37: every element getVideo(url) returns (the videos entry of url has
\* status 'ready') is the element the registry holds for url, is still in
\* the document and still has a source, also after the preload effect ran
\* again.
C37_GetVideoIsLive ==
    (platform = "preloader" /\ preloader.phase = "mounted") =>
        \A u \in Srcs :
            preloader.videos[u].status = "ready" =>
                LET e == preloader.videos[u].element
                IN /\ preloader.videoElementsRef[u] = e
                   /\ preloader.elems[e].attached
                   /\ preloader.elems[e].src # ""

(***************************************************************************)
(* The display link of an attached native view.                            *)
(***************************************************************************)
\* C38: on native, whenever the view is in a superview and has a player, a
\* display link is active; so after the view was removed from its superview
\* and added again, rendering goes on without a new source.
C38_AttachedViewHasDisplayLink ==
    (platform = "native" /\ nat.created /\ ~nat.released /\ ~nat.trapped
        /\ nat.superview /\ nat.player)
        => nat.displayLink

(***************************************************************************)
(* No loading timeout without cause.                                       *)
(***************************************************************************)
\* C39: a loading timeout is reported only for a player whose current item
\* still has status unknown, 30 seconds or more after its source was set;
\* no timer is pending after a notification that the item is readyToPlay or
\* failed, nor after cleanupPlayer (a replaced source, a deallocated view).
C39_NoTimeoutWithoutCause ==
    [][platform = "native" =>
         /\ "timeout" \in nat'.ops
               => /\ nat.player
                  /\ nat.status = "unknown"
                  /\ nat.timerDue # NoTimer
                  /\ nat'.clock >= StatusTimeout
         /\ (nat.status = "unknown" /\ nat'.status \in {"readyToPlay", "failed"})
               => nat'.timerDue = NoTimer
         /\ "cleanupPlayer" \in nat'.ops => nat'.timerDue = NoTimer
         /\ nat'.timerDue # NoTimer => (nat'.player /\ nat'.status = "unknown")]_vars

\* The timer of an item that is still loading has fired and reported.
C39_Witness ==
    /\ platform = "native"
    /\ "timeout" \in nat.ops
    /\ "onError" \in nat.ops
    /\ nat.status = "unknown"
    /\ nat.clock >= StatusTimeout
    /\ nat.timerDue = NoTimer

====
